---- MODULE Spec2Model ----
(***************************************************************************)
(* Cold Storage Inspector: query normalisation and brittle-pattern         *)
(* scoring (csi/utils/query_normalization.py), the partition heat map      *)
(* (csi/models/heatmap.py) and the archival policy gate                    *)
(* (csi/models/policy.py).                                                 *)
(*                                                                         *)
(* Text is a sequence of one-character strings.  Scores that the code      *)
(* keeps as floats are kept exactly: brittle weights in tenths, policy     *)
(* scores in hundredths, the coldness score as a fraction <<num, den>>.    *)
(***************************************************************************)
EXTENDS Integers, Sequences, FiniteSets, TLC

(***************************************************************************)
(* Characters and character classes of Python's re module (ASCII part).    *)
(***************************************************************************)
Lowercase ==
    <<"a", "b", "c", "d", "e", "f", "g", "h", "i", "j", "k", "l", "m",
      "n", "o", "p", "q", "r", "s", "t", "u", "v", "w", "x", "y", "z">>

Uppercase ==
    <<"A", "B", "C", "D", "E", "F", "G", "H", "I", "J", "K", "L", "M",
      "N", "O", "P", "Q", "R", "S", "T", "U", "V", "W", "X", "Y", "Z">>

LowerSet == {Lowercase[k] : k \in 1..Len(Lowercase)}

UpperSet == {Uppercase[k] : k \in 1..Len(Uppercase)}

DigitSet == {"0", "1", "2", "3", "4", "5", "6", "7", "8", "9"}

\* \s
SpaceSet == {" ", "\n", "\t"}

\* \w
WordSet == LowerSet \cup UpperSet \cup DigitSet \cup {"_"}

\* [a-zA-Z0-9_$]
IdentSet == WordSet \cup {"$"}

ToLowerMap ==
    [c \in UpperSet |-> Lowercase[CHOOSE k \in 1..Len(Uppercase) : Uppercase[k] = c]]

\* str.lower() on one character
LowerChar(c) == IF c \in UpperSet THEN ToLowerMap[c] ELSE c

\* the character at 1-based position i, "" outside the text
CharAt(s, i) == IF i >= 1 /\ i <= Len(s) THEN s[i] ELSE ""

\* \b at the gap in front of position i
Boundary(s, i) == (CharAt(s, i - 1) \in WordSet) # (CharAt(s, i) \in WordSet)

\* the smallest element of a non-empty set of positions
MinOf(S) == CHOOSE k \in S : \A m \in S : k <= m

\* the first position >= i whose character is outside cls (Len(s) + 1 if none)
RunEnd(s, i, cls) ==
    LET stops == {k \in i..Len(s) : s[k] \notin cls}
    IN  IF stops = {} THEN Len(s) + 1
        ELSE MinOf(stops)

\* the literal word w stands at position i; ci: re.IGNORECASE
WordAt(s, i, w, ci) ==
    /\ i >= 1
    /\ i + Len(w) - 1 <= Len(s)
    /\ \A k \in 1..Len(w) :
          IF ci THEN LowerChar(s[i + k - 1]) = LowerChar(w[k])
          ELSE s[i + k - 1] = w[k]

(***************************************************************************)
(* The regular expressions of normalize_query.  Each XxxEnd(s, i, ...) is  *)
(* the position right after the match that re finds starting at i, or 0    *)
(* when the pattern does not match at i.                                   *)
(***************************************************************************)

\* --.*$ with re.MULTILINE: from "--" up to the end of the line
LineCommentEnd(s, i) ==
    IF CharAt(s, i) = "-" /\ CharAt(s, i + 1) = "-"
    THEN LET ends == {k \in (i + 2)..Len(s) : s[k] = "\n"}
         IN  IF ends = {} THEN Len(s) + 1
             ELSE MinOf(ends)
    ELSE 0

\* /\*.*?\*/ with re.DOTALL: from "/*" to the nearest "*/" after it
BlockCommentEnd(s, i) ==
    IF CharAt(s, i) = "/" /\ CharAt(s, i + 1) = "*"
    THEN LET closes == {k \in (i + 2)..(Len(s) - 1) : s[k] = "*" /\ s[k + 1] = "/"}
         IN  IF closes = {} THEN 0
             ELSE MinOf(closes) + 2
    ELSE 0

\* \s+
SpacesEnd(s, i) ==
    IF CharAt(s, i) \in SpaceSet THEN RunEnd(s, i, SpaceSet) ELSE 0

RECURSIVE QuoteLoop(_, _, _, _)
\* q([^q]|qq)*q after the opening quote: the loop runs greedily from p; when
\* it reaches the end of the text without a closing quote, re backtracks to
\* the last doubled quote it consumed (at position last) and closes there.
QuoteLoop(s, p, q, last) ==
    IF p > Len(s) THEN (IF last = 0 THEN 0 ELSE last + 1)
    ELSE IF s[p] # q THEN QuoteLoop(s, p + 1, q, last)
    ELSE IF CharAt(s, p + 1) = q THEN QuoteLoop(s, p + 2, q, p)
    ELSE p + 1

\* '([^']|'')*'  and  "([^"]|"")*"
QuotedEnd(s, i, q) == IF CharAt(s, i) = q THEN QuoteLoop(s, i + 1, q, 0) ELSE 0

\* (?<![a-zA-Z0-9_$])-?\d+\.?\d*(?![a-zA-Z0-9_$])
NumericEnd(s, i) ==
    IF CharAt(s, i - 1) \in IdentSet THEN 0
    ELSE LET j  == IF CharAt(s, i) = "-" THEN i + 1 ELSE i
             d1 == RunEnd(s, j, DigitSet)
             k  == IF CharAt(s, d1) = "." THEN d1 + 1 ELSE d1
             d2 == RunEnd(s, k, DigitSet)
         IN  IF d1 = j THEN 0
             ELSE IF CharAt(s, d2) \notin IdentSet THEN d2
             \* backtracking: giving digits back leaves a digit ahead, giving
             \* the dot back leaves the dot ahead
             ELSE IF k > d1 THEN d1
             ELSE 0

\* \b(TRUE|FALSE|true|false)\b
BooleanWords ==
    << <<"T", "R", "U", "E">>, <<"F", "A", "L", "S", "E">>,
       <<"t", "r", "u", "e">>, <<"f", "a", "l", "s", "e">> >>

BooleanEnd(s, i) ==
    LET hits == {k \in 1..Len(BooleanWords) :
                    /\ WordAt(s, i, BooleanWords[k], FALSE)
                    /\ Boundary(s, i)
                    /\ Boundary(s, i + Len(BooleanWords[k]))}
    IN  IF hits = {} THEN 0
        ELSE i + Len(BooleanWords[CHOOSE k \in hits : TRUE])

\* the keywords list of step 4
keywords ==
    << <<"S", "E", "L", "E", "C", "T">>,
       <<"F", "R", "O", "M">>,
       <<"W", "H", "E", "R", "E">>,
       <<"J", "O", "I", "N">>,
       <<"I", "N", "N", "E", "R">>,
       <<"L", "E", "F", "T">>,
       <<"R", "I", "G", "H", "T">>,
       <<"F", "U", "L", "L">>,
       <<"O", "U", "T", "E", "R">>,
       <<"O", "N">>,
       <<"A", "N", "D">>,
       <<"O", "R">>,
       <<"N", "O", "T">>,
       <<"I", "N">>,
       <<"E", "X", "I", "S", "T", "S">>,
       <<"B", "E", "T", "W", "E", "E", "N">>,
       <<"L", "I", "K", "E">>,
       <<"I", "L", "I", "K", "E">>,
       <<"G", "R", "O", "U", "P">>,
       <<"B", "Y">>,
       <<"H", "A", "V", "I", "N", "G">>,
       <<"O", "R", "D", "E", "R">>,
       <<"L", "I", "M", "I", "T">>,
       <<"O", "F", "F", "S", "E", "T">>,
       <<"I", "N", "S", "E", "R", "T">>,
       <<"I", "N", "T", "O">>,
       <<"V", "A", "L", "U", "E", "S">>,
       <<"U", "P", "D", "A", "T", "E">>,
       <<"S", "E", "T">>,
       <<"D", "E", "L", "E", "T", "E">>,
       <<"C", "R", "E", "A", "T", "E">>,
       <<"D", "R", "O", "P">>,
       <<"A", "L", "T", "E", "R">>,
       <<"T", "A", "B", "L", "E">>,
       <<"V", "I", "E", "W">>,
       <<"I", "N", "D", "E", "X">>,
       <<"U", "N", "I", "O", "N">>,
       <<"I", "N", "T", "E", "R", "S", "E", "C", "T">>,
       <<"E", "X", "C", "E", "P", "T">>,
       <<"A", "L", "L">>,
       <<"A", "S">>,
       <<"I", "S">>,
       <<"N", "U", "L", "L">> >>

\* \b{keyword}\b with re.IGNORECASE
KeywordEnd(s, i, keyword) ==
    IF Boundary(s, i) /\ WordAt(s, i, keyword, TRUE) /\ Boundary(s, i + Len(keyword))
    THEN i + Len(keyword)
    ELSE 0

RECURSIVE PhraseEnd(_, _, _, _)
\* words[n] \s+ words[n+1] \s+ ... with re.IGNORECASE, starting at i
PhraseEnd(s, i, words, n) ==
    IF ~WordAt(s, i, words[n], TRUE) THEN 0
    ELSE LET e == i + Len(words[n])
         IN  IF n = Len(words) THEN e
             ELSE IF SpacesEnd(s, e) = 0 THEN 0
             ELSE PhraseEnd(s, SpacesEnd(s, e), words, n + 1)

\* \b words[1] \s+ ... \s+ words[Len(words)] \b with re.IGNORECASE
BoundedPhraseEnd(s, i, words) ==
    LET e == PhraseEnd(s, i, words, 1)
    IN  IF e # 0 /\ Boundary(s, i) /\ Boundary(s, e) THEN e ELSE 0

\* \binner\s+join\b with re.IGNORECASE
InnerJoinEnd(s, i) ==
    BoundedPhraseEnd(s, i, << <<"i", "n", "n", "e", "r">>, <<"j", "o", "i", "n">> >>)

\* date\s*[=<>]+\s*\d{4}-\d{2}-\d{2} with re.IGNORECASE
HardCodedDateEnd(s, i) ==
    IF ~WordAt(s, i, <<"d", "a", "t", "e">>, TRUE) THEN 0
    ELSE LET a == RunEnd(s, i + 4, SpaceSet)
             b == RunEnd(s, a, {"=", "<", ">"})
             c == RunEnd(s, b, SpaceSet)
         IN  IF /\ b > a
                /\ \A k \in {0, 1, 2, 3, 5, 6, 8, 9} : CharAt(s, c + k) \in DigitSet
                /\ CharAt(s, c + 4) = "-"
                /\ CharAt(s, c + 7) = "-"
             THEN c + 10
             ELSE 0

\* .*word seen from position w with re.IGNORECASE: the word stands somewhere
\* in the rest of w's line ("." stops at a newline)
LaterInLine(s, w, word) ==
    \E p \in w..Len(s) :
        /\ WordAt(s, p, word, TRUE)
        /\ \A k \in w..(p - 1) : s[k] # "\n"

\* where\s+(?!.*partition|.*date|.*timestamp) with re.IGNORECASE: \s+ may
\* stop after any of the whitespace characters that follow "where"
NoPartitionFilterEnd(s, i) ==
    IF ~WordAt(s, i, <<"w", "h", "e", "r", "e">>, TRUE) THEN 0
    ELSE LET stops == {w \in (i + 6)..RunEnd(s, i + 5, SpaceSet) :
                          /\ ~LaterInLine(s, w, <<"p", "a", "r", "t", "i", "t", "i", "o", "n">>)
                          /\ ~LaterInLine(s, w, <<"d", "a", "t", "e">>)
                          /\ ~LaterInLine(s, w, <<"t", "i", "m", "e", "s", "t", "a", "m", "p">>)}
         IN  IF stops = {} THEN 0
             \* greedy: the longest run of whitespace that the lookahead accepts
             ELSE CHOOSE w \in stops : \A m \in stops : w >= m

\* the end of the match of pattern pat at position i (0: no match)
MatchEnd(pat, s, i) ==
    CASE pat.re = "line_comment"  -> LineCommentEnd(s, i)
      [] pat.re = "block_comment" -> BlockCommentEnd(s, i)
      [] pat.re = "spaces"        -> SpacesEnd(s, i)
      [] pat.re = "quoted"        -> QuotedEnd(s, i, pat.quote)
      [] pat.re = "numeric"       -> NumericEnd(s, i)
      [] pat.re = "boolean"       -> BooleanEnd(s, i)
      [] pat.re = "keyword"       -> KeywordEnd(s, i, pat.word)
      [] pat.re = "inner_join"    -> InnerJoinEnd(s, i)
      [] pat.re = "phrase"        -> BoundedPhraseEnd(s, i, pat.words)
      [] pat.re = "hard_coded_dates"    -> HardCodedDateEnd(s, i)
      [] pat.re = "no_partition_filter" -> NoPartitionFilterEnd(s, i)

RECURSIVE SubFrom(_, _, _, _, _)
\* re.sub scanning from position i: the leftmost match at or after i is
\* replaced by repl and the scan resumes right after it; the text between
\* matches is copied.  starts: the positions where pat matches.
SubFrom(pat, repl, s, i, starts) ==
    LET ahead == {k \in starts : k >= i}
    IN  IF ahead = {} THEN SubSeq(s, i, Len(s))
        ELSE SubSeq(s, i, MinOf(ahead) - 1) \o repl
             \o SubFrom(pat, repl, s, MatchEnd(pat, s, MinOf(ahead)), starts)

\* re.sub(pat, repl, s)
ReSub(pat, repl, s) ==
    SubFrom(pat, repl, s, 1, {k \in 1..Len(s) : MatchEnd(pat, s, k) > k})

\* str.strip()
Strip(s) ==
    LET keep == {k \in 1..Len(s) : s[k] \notin SpaceSet}
    IN  IF keep = {} THEN <<>>
        ELSE SubSeq(s, CHOOSE k \in keep : \A m \in keep : k <= m,
                       CHOOSE k \in keep : \A m \in keep : k >= m)

\* The loop of step 4: for keyword in keywords: text = re.sub(\b{keyword}\b,
\* keyword.lower(), text, IGNORECASE).  A pass changes only the case of
\* letters, and neither IGNORECASE matching nor \b looks at case, so every
\* pass matches where its keyword stands in the text before the loop, and
\* the loop lowercases exactly the characters of those matches.
\* A keyword holds only word characters and is matched between two \b, so a
\* match that covers position k starts where the run of word characters
\* around k starts.
LowercaseKeywords(s) ==
    [k \in 1..Len(s) |->
        IF s[k] \in UpperSet
        THEN LET gaps  == {j \in 1..k : s[j] \notin WordSet}
                 start == IF gaps = {} THEN 1
                          ELSE (CHOOSE j \in gaps : \A m \in gaps : j >= m) + 1
             IN  IF \E n \in 1..Len(keywords) : KeywordEnd(s, start, keywords[n]) > k
                 THEN LowerChar(s[k])
                 ELSE s[k]
        ELSE s[k]]

\* 1. Remove comments: single-line comments, then multi-line comments
RemoveComments(text) ==
    ReSub([re |-> "block_comment"], <<>>, ReSub([re |-> "line_comment"], <<>>, text))

\* 2. and 6. Normalize whitespace: re.sub(\s+, " ", text).strip()
NormalizeWhitespace(text) == Strip(ReSub([re |-> "spaces"], <<" ">>, text))

\* 3. Replace literals with placeholders: single-quoted strings,
\* double-quoted strings, numeric literals, boolean literals, in this order
ReplaceLiterals(text) ==
    ReSub([re |-> "boolean"], <<"?">>,
        ReSub([re |-> "numeric"], <<"?">>,
            ReSub([re |-> "quoted", quote |-> "\""], <<"?">>,
                ReSub([re |-> "quoted", quote |-> "'"], <<"?">>, text))))

\* 5. Standardize JOIN syntax: INNER JOIN -> JOIN
StandardizeJoins(text) == ReSub([re |-> "inner_join"], <<"j", "o", "i", "n">>, text)

\* normalize_query(text)
normalize_query(text) ==
    IF text = <<>> THEN <<>>
    ELSE NormalizeWhitespace(
             StandardizeJoins(
                 LowercaseKeywords(
                     ReplaceLiterals(
                         NormalizeWhitespace(
                             RemoveComments(text))))))

(***************************************************************************)
(* Brittle pattern detection.  Risk scores are in tenths.                  *)
(***************************************************************************)

\* Optional[...] arguments and fields: None, or a one-element sequence
None == <<>>

Some(v) == <<v>>

\* BRITTLE_PATTERNS, in the order of the dictionary
BRITTLE_PATTERNS ==
    << [name |-> "FULL_OUTER_JOIN",
        pattern |-> [re |-> "phrase",
                     words |-> << <<"f", "u", "l", "l">>, <<"o", "u", "t", "e", "r">>,
                                  <<"j", "o", "i", "n">> >>],
        description |-> "Archive would drop unmatched rows",
        risk_score |-> 9],
       [name |-> "UNION_ALL",
        pattern |-> [re |-> "phrase",
                     words |-> << <<"u", "n", "i", "o", "n">>, <<"a", "l", "l">> >>],
        description |-> "Archive would reduce union cardinality",
        risk_score |-> 9],
       [name |-> "SELECT_STAR",
        pattern |-> [re |-> "phrase",
                     words |-> << <<"s", "e", "l", "e", "c", "t">>, <<"*">> >>],
        description |-> "Archive might drop columns silently",
        risk_score |-> 3],
       [name |-> "HARD_CODED_DATES",
        pattern |-> [re |-> "hard_coded_dates"],
        description |-> "Query assumes specific partitions exist",
        risk_score |-> 6],
       [name |-> "NO_PARTITION_FILTER",
        pattern |-> [re |-> "no_partition_filter"],
        description |-> "Query scans entire table; archive would break",
        risk_score |-> 6],
       [name |-> "MATERIALIZED_VIEW",
        pattern |-> [re |-> "phrase",
                     words |-> << <<"c", "r", "e", "a", "t", "e">>,
                                  <<"m", "a", "t", "e", "r", "i", "a", "l", "i", "z", "e", "d">>,
                                  <<"v", "i", "e", "w">> >>],
        description |-> "MV depends on base table partitions",
        risk_score |-> 10],
       [name |-> "EXTERNAL_TABLE",
        pattern |-> [re |-> "phrase",
                     words |-> << <<"c", "r", "e", "a", "t", "e">>,
                                  <<"e", "x", "t", "e", "r", "n", "a", "l">>,
                                  <<"t", "a", "b", "l", "e">> >>],
        description |-> "External table paths might reference archived partitions",
        risk_score |-> 7] >>

\* re.search(pat, s)
ReSearch(pat, s) == \E i \in 1..Len(s) : MatchEnd(pat, s, i) # 0

\* the findings in the text that is searched
Findings(text) ==
    LET hits == SelectSeq(BRITTLE_PATTERNS, LAMBDA info : ReSearch(info.pattern, text))
    IN  [k \in 1..Len(hits) |-> <<hits[k].name, hits[k].risk_score, hits[k].description>>]

\* detect_brittle_patterns(query_text, normalized); the singleton set binds
\* the searched text to its value
detect_brittle_patterns(query_text, normalized) ==
    CHOOSE found \in
        {Findings(text) :
            text \in {IF normalized = None THEN normalize_query(query_text)
                      ELSE normalized[1]}} : TRUE

\* max(score for _, score, _ in patterns)
MaxScore(patterns) ==
    CHOOSE m \in {patterns[k][2] : k \in 1..Len(patterns)} :
        \A k \in 1..Len(patterns) : patterns[k][2] <= m

\* a score that takes the weight of the first finding instead of the largest;
\* not the code's compute_brittle_score, which C7 must tell apart
compute_brittle_score_first(query_text, normalized) ==
    CHOOSE score \in
        {IF patterns = <<>> THEN 0 ELSE patterns[1][2] :
            patterns \in {detect_brittle_patterns(query_text, normalized)}} : TRUE

\* compute_brittle_score(query_text, normalized)
compute_brittle_score(query_text, normalized) ==
    CHOOSE score \in
        {IF patterns = <<>> THEN 0 ELSE MaxScore(patterns) :
            patterns \in {detect_brittle_patterns(query_text, normalized)}} : TRUE

(***************************************************************************)
(* The fingerprint: compute_query_hash.  hashlib.md5 is computed as RFC     *)
(* 1321 defines it, on 32-bit words kept as <<high half, low half>>.       *)
(***************************************************************************)

\* the characters with the code points 32..126, in order; the backslash and
\* the backquote do not occur in the texts of the model and are left empty
Printable ==
    <<" ", "!", "\"", "#", "$", "%", "&", "'", "(", ")", "*", "+",
      ",", "-", ".", "/", "0", "1", "2", "3", "4", "5", "6", "7",
      "8", "9", ":", ";", "<", "=", ">", "?", "@", "A", "B", "C",
      "D", "E", "F", "G", "H", "I", "J", "K", "L", "M", "N", "O",
      "P", "Q", "R", "S", "T", "U", "V", "W", "X", "Y", "Z", "[",
      "", "]", "^", "_", "", "a", "b", "c", "d", "e", "f", "g",
      "h", "i", "j", "k", "l", "m", "n", "o", "p", "q", "r", "s",
      "t", "u", "v", "w", "x", "y", "z", "{", "|", "}", "~">>

\* ord(c) for the ASCII characters of the model
Ord(c) ==
    IF c = "\n" THEN 10
    ELSE IF c = "\t" THEN 9
    ELSE 31 + CHOOSE k \in 1..Len(Printable) : Printable[k] = c

\* text.encode("utf-8") on ASCII text: one byte per character
EncodeUtf8(s) == [k \in 1..Len(s) |-> Ord(s[k])]

\* bit k (0 = lowest) of the number x
BitOf(x, k) == (x \div (2 ^ k)) % 2

\* per 4-bit digit, the round functions of MD5 (RFC 1321):
\* F = (b & c) | (~b & d), G = (b & d) | (c & ~d), H = b ^ c ^ d,
\* I = c ^ (b | ~d)
RoundBit(r, b, c, d) ==
    CASE r = 1 -> IF b = 1 THEN c ELSE d
      [] r = 2 -> IF d = 1 THEN b ELSE c
      [] r = 3 -> (b + c + d) % 2
      [] r = 4 -> (c + (IF b = 1 \/ d = 0 THEN 1 ELSE 0)) % 2

RoundDigit ==
    [r \in 1..4 |->
        [b \in 0..15 |-> [c \in 0..15 |-> [d \in 0..15 |->
            RoundBit(r, BitOf(b, 0), BitOf(c, 0), BitOf(d, 0))
            + 2 * RoundBit(r, BitOf(b, 1), BitOf(c, 1), BitOf(d, 1))
            + 4 * RoundBit(r, BitOf(b, 2), BitOf(c, 2), BitOf(d, 2))
            + 8 * RoundBit(r, BitOf(b, 3), BitOf(c, 3), BitOf(d, 3))]]]]

\* a round function on 16-bit numbers
RoundHalf(r, b, c, d) ==
    RoundDigit[r][b % 16][c % 16][d % 16]
    + 16 * RoundDigit[r][(b \div 16) % 16][(c \div 16) % 16][(d \div 16) % 16]
    + 256 * RoundDigit[r][(b \div 256) % 16][(c \div 256) % 16][(d \div 256) % 16]
    + 4096 * RoundDigit[r][b \div 4096][c \div 4096][d \div 4096]

\* a 32-bit word is <<high 16 bits, low 16 bits>>
RoundWord(r, b, c, d) == <<RoundHalf(r, b[1], c[1], d[1]), RoundHalf(r, b[2], c[2], d[2])>>

\* the sum of four words modulo 2^32
AddWords(ws) ==
    LET lo == ws[1][2] + ws[2][2] + ws[3][2] + ws[4][2]
        hi == ws[1][1] + ws[2][1] + ws[3][1] + ws[4][1] + (lo \div 65536)
    IN  <<hi % 65536, lo % 65536>>

\* rotate a word left by n bits, 0 < n < 32
RotateLeft(x, n) ==
    LET y == IF n >= 16 THEN <<x[2], x[1]>> ELSE x
        m == n % 16
        p == 2 ^ (16 - m)
    IN  IF m = 0 THEN y
        ELSE <<(y[1] % p) * (2 ^ m) + (y[2] \div p),
               (y[2] % p) * (2 ^ m) + (y[1] \div p)>>

\* K[i] = floor(2^32 * abs(sin(i + 1)))
Md5K ==
    << <<55146, 42104>>, <<59591, 46934>>, <<9248, 28891>>, <<49597, 52974>>,
       <<62844, 4015>>, <<18311, 50730>>, <<43056, 17939>>, <<64838, 38145>>,
       <<27008, 39128>>, <<35652, 63407>>, <<65535, 23473>>, <<35164, 55230>>,
       <<27536, 4386>>, <<64920, 29075>>, <<42617, 17294>>, <<18868, 2081>>,
       <<63006, 9570>>, <<49216, 45888>>, <<9822, 23121>>, <<59830, 51114>>,
       <<54831, 4189>>, <<580, 5203>>, <<55457, 59009>>, <<59347, 64456>>,
       <<8673, 52710>>, <<49975, 2006>>, <<62677, 3463>>, <<17754, 5357>>,
       <<43491, 59653>>, <<64751, 41976>>, <<26479, 729>>, <<36138, 19594>>,
       <<65530, 14658>>, <<34673, 63105>>, <<28061, 24866>>, <<64997, 14348>>,
       <<42174, 59972>>, <<19422, 53161>>, <<63163, 19296>>, <<48831, 48240>>,
       <<10395, 32454>>, <<60065, 10234>>, <<54511, 12421>>, <<1160, 7429>>,
       <<55764, 53305>>, <<59099, 39397>>, <<8098, 31992>>, <<50348, 22117>>,
       <<62505, 8772>>, <<17194, 65431>>, <<43924, 9127>>, <<64659, 41017>>,
       <<25947, 22979>>, <<36620, 52370>>, <<65519, 62589>>, <<34180, 24017>>,
       <<28584, 32335>>, <<65068, 59104>>, <<41729, 17172>>, <<19976, 4513>>,
       <<63315, 32386>>, <<48442, 62005>>, <<10967, 53947>>, <<60294, 54161>> >>

\* the per-step shift amounts
Md5S ==
    <<7, 12, 17, 22, 7, 12, 17, 22, 7, 12, 17, 22, 7, 12, 17, 22,
      5, 9, 14, 20, 5, 9, 14, 20, 5, 9, 14, 20, 5, 9, 14, 20,
      4, 11, 16, 23, 4, 11, 16, 23, 4, 11, 16, 23, 4, 11, 16, 23,
      6, 10, 15, 21, 6, 10, 15, 21, 6, 10, 15, 21, 6, 10, 15, 21>>

\* the message word used by step i (0-based)
Md5G(i) ==
    CASE i < 16 -> i
      [] i >= 16 /\ i < 32 -> (5 * i + 1) % 16
      [] i >= 32 /\ i < 48 -> (3 * i + 5) % 16
      [] i >= 48 -> (7 * i) % 16

\* the word 0
Md5Zero == <<0, 0>>

\* step i (0-based) of a block on the state st = <<a, b, c, d>>; m: the 16
\* words of the block
Md5Step(st, m, i) ==
    LET sum == AddWords(<<st[1], RoundWord((i \div 16) + 1, st[2], st[3], st[4]),
                          Md5K[i + 1], m[Md5G(i) + 1]>>)
    IN  <<st[4], AddWords(<<st[2], RotateLeft(sum, Md5S[i + 1]), Md5Zero, Md5Zero>>), st[2], st[3]>>

RECURSIVE Md5Steps(_, _, _, _)
\* steps first..last of a block, the first half of them before the second;
\* the singleton set binds the state in between
Md5Steps(st, m, first, last) ==
    IF first = last THEN Md5Step(st, m, first)
    ELSE CHOOSE out \in
             {Md5Steps(mid, m, ((first + last) \div 2) + 1, last) :
                 mid \in {Md5Steps(st, m, first, (first + last) \div 2)}} : TRUE

\* the padded message: the bytes, 0x80, zeros up to 56 modulo 64, and the
\* bit length as 8 little-endian bytes
Md5Pad(bytes) ==
    LET n     == Len(bytes)
        zeros == (119 - n) % 64
        bits  == 8 * n
    IN  bytes \o <<128>> \o [k \in 1..zeros |-> 0]
        \o <<bits % 256, (bits \div 256) % 256, (bits \div 65536) % 256, 0, 0, 0, 0, 0>>

\* word w (0-based) of block blk (0-based) of the padded message, little-endian
Md5Word(padded, blk, w) ==
    LET o == 64 * blk + 4 * w
    IN  <<padded[o + 4] * 256 + padded[o + 3], padded[o + 2] * 256 + padded[o + 1]>>

\* the state after one block: the steps' result added to the state before
Md5Block(st, padded, blk) ==
    LET out == Md5Steps(st, [w \in 1..16 |-> Md5Word(padded, blk, w - 1)], 0, 63)
    IN  [k \in 1..4 |-> AddWords(<<st[k], out[k], Md5Zero, Md5Zero>>)]

RECURSIVE Md5Blocks(_, _, _)
\* the blocks from blk on
Md5Blocks(st, padded, blk) ==
    IF 64 * blk >= Len(padded) THEN st
    ELSE CHOOSE out \in
             {Md5Blocks(next, padded, blk + 1) : next \in {Md5Block(st, padded, blk)}} : TRUE

HexDigits ==
    <<"0", "1", "2", "3", "4", "5", "6", "7", "8", "9", "a", "b", "c", "d", "e", "f">>

\* two hexadecimal characters of a byte
HexByte(b) == <<HexDigits[(b \div 16) + 1], HexDigits[(b % 16) + 1]>>

\* the 8 hexadecimal characters of a word, lowest byte first
HexWord(x) ==
    HexByte(x[2] % 256) \o HexByte(x[2] \div 256)
    \o HexByte(x[1] % 256) \o HexByte(x[1] \div 256)

\* hashlib.md5(bytes).hexdigest()
Md5Hexdigest(bytes) ==
    \* the initial state 67452301 efcdab89 98badcfe 10325476 (hexadecimal)
    LET st == Md5Blocks(<< <<26437, 8961>>, <<61389, 43913>>,
                           <<39098, 56574>>, <<4146, 21622>> >>, Md5Pad(bytes), 0)
    IN  HexWord(st[1]) \o HexWord(st[2]) \o HexWord(st[3]) \o HexWord(st[4])

\* a fingerprint that hashes the raw text when no normalized text is given;
\* not the code's compute_query_hash, which C11 must tell apart
compute_query_hash_raw(query_text, normalized) ==
    SubSeq(Md5Hexdigest(EncodeUtf8(IF normalized = None THEN query_text
                                   ELSE normalized[1])),
           1, 16)

\* compute_query_hash(query_text, normalized)
compute_query_hash(query_text, normalized) ==
    SubSeq(Md5Hexdigest(EncodeUtf8(IF normalized = None THEN normalize_query(query_text)
                                   ELSE normalized[1])),
           1, 16)

(***************************************************************************)
(* Bounds of the model.                                                    *)
(***************************************************************************)

\* the calendar day on which the clock starts
StartDay == 100

\* clock readings per calendar day (the time of day of a datetime)
TicksPerDay == 2

\* how far the clock advances, in ticks
MaxTicks == 1

\* add_access calls in one run
MaxAccesses == 2

\* fragments in front of the literal of a query text
MaxFragments == 1

(***************************************************************************)
(* Partition heat map (csi/models/heatmap.py).  A datetime is a number of  *)
(* ticks; the calendar day of tick t is t \div TicksPerDay and the rest is *)
(* its time of day.  A date key "YYYY-MM-DD" is the number of its day.     *)
(***************************************************************************)

\* date.strftime("%Y-%m-%d")
Strftime(date) == date \div TicksPerDay

\* datetime.strptime(date_str, "%Y-%m-%d"): midnight of that day
Strptime(date_str) == date_str * TicksPerDay

\* timedelta(days=n)
Timedelta(days) == days * TicksPerDay

\* dict.get(key, default)
DictGet(d, key, default) == IF key \in DOMAIN d THEN d[key] ELSE default

RECURSIVE SumValues(_, _)
\* sum(d[k] for k in keys)
SumValues(d, keys) ==
    IF keys = {} THEN 0
    ELSE LET k == CHOOSE x \in keys : TRUE
         IN  d[k] + SumValues(d, keys \ {k})

\* an add_access that sets the day-bucket to 1 instead of incrementing it;
\* not the code's add_access, which C24 must tell apart
add_access_overwrite(access_counts, date) ==
    [k \in DOMAIN access_counts \cup {Strftime(date)} |->
        IF k = Strftime(date) THEN 1 ELSE access_counts[k]]

\* an add_access that starts a new dictionary holding only the day-bucket
\* of date; not the code's add_access, which C30 must tell apart
add_access_replace(access_counts, date) ==
    [k \in {Strftime(date)} |-> DictGet(access_counts, Strftime(date), 0) + 1]

\* AccessMatrix.add_access(date): the new access_counts
add_access(access_counts, date) ==
    LET date_key == Strftime(date)
    IN  [k \in DOMAIN access_counts \cup {date_key} |->
            IF k = date_key THEN DictGet(access_counts, date_key, 0) + 1
            ELSE access_counts[k]]

\* AccessMatrix.get_access_count(date)
get_access_count(access_counts, date) == DictGet(access_counts, Strftime(date), 0)

\* the difference of the calendar days of now and of last_accessed; not the
\* code's days_since_access, which C23 must tell apart
days_since_access_calendar(last_accessed, now) ==
    IF last_accessed = None THEN None
    ELSE Some(Strftime(now) - Strftime(last_accessed[1]))

\* PartitionHeatMap.days_since_access, read at the time now: timedelta.days
\* is the number of whole days of the difference, rounded down
days_since_access(last_accessed, now) ==
    IF last_accessed = None THEN None
    ELSE Some((now - last_accessed[1]) \div TicksPerDay)

\* AccessMatrix.get_total_accesses(start_date, end_date)
get_total_accesses(access_counts, start_date, end_date) ==
    IF start_date = None /\ end_date = None
    THEN SumValues(access_counts, DOMAIN access_counts)
    ELSE SumValues(access_counts,
             {date_str \in DOMAIN access_counts :
                 /\ ~(start_date # None /\ Strptime(date_str) < start_date[1])
                 /\ ~(end_date # None /\ Strptime(date_str) > end_date[1])})

RECURSIVE Gcd(_, _)
Gcd(a, b) == IF b = 0 THEN a ELSE Gcd(b, a % b)

\* the float num / den (den > 0) as a fraction in lowest terms
Frac(num, den) ==
    LET a == IF num < 0 THEN -num ELSE num
        g == Gcd(a, den)
    IN  <<num \div g, den \div g>>

\* a <= b on floats
FracLeq(a, b) == a[1] * b[2] <= b[1] * a[2]

\* max(a, b) and min(a, b) on floats
FracMax(a, b) == IF FracLeq(a, b) THEN b ELSE a

FracMin(a, b) == IF FracLeq(a, b) THEN a ELSE b

\* the number of days of the recent window in update_coldness_score
RecentDays == 30

\* a score whose recent window starts 30 days before now instead of 30 days
\* before today's midnight; not the code's, which C4 must tell apart
update_coldness_score_from_now(access_counts, now, lookback_days) ==
    LET start_30d    == now - Timedelta(RecentDays)
        start_90d    == Strptime(Strftime(now)) - Timedelta(lookback_days)
        accesses_30d == get_total_accesses(access_counts, Some(start_30d), Some(now))
        accesses_90d == get_total_accesses(access_counts, Some(start_90d), Some(now))
    IN  IF accesses_90d = 0 THEN Frac(1, 1)
        ELSE FracMax(Frac(0, 1),
                     FracMin(Frac(1, 1), Frac(accesses_90d - accesses_30d, accesses_90d)))

\* a score without max(0.0, min(1.0, ...)); not the code's, which C5 must
\* tell apart
update_coldness_score_unclamped(access_counts, now, lookback_days) ==
    LET start_30d    == Strptime(Strftime(now)) - Timedelta(RecentDays)
        start_90d    == Strptime(Strftime(now)) - Timedelta(lookback_days)
        accesses_30d == get_total_accesses(access_counts, Some(start_30d), Some(now))
        accesses_90d == get_total_accesses(access_counts, Some(start_90d), Some(now))
    IN  IF accesses_90d = 0 THEN Frac(1, 1)
        ELSE Frac(accesses_90d - accesses_30d, accesses_90d)

\* a score that grows with the recent share, accesses_30d / accesses_90d;
\* not the code's, which C6 must tell apart
update_coldness_score_inverted(access_counts, now, lookback_days) ==
    LET start_30d    == Strptime(Strftime(now)) - Timedelta(RecentDays)
        start_90d    == Strptime(Strftime(now)) - Timedelta(lookback_days)
        accesses_30d == get_total_accesses(access_counts, Some(start_30d), Some(now))
        accesses_90d == get_total_accesses(access_counts, Some(start_90d), Some(now))
    IN  IF accesses_90d = 0 THEN Frac(1, 1)
        ELSE FracMax(Frac(0, 1), FracMin(Frac(1, 1), Frac(accesses_30d, accesses_90d)))

\* PartitionHeatMap.update_coldness_score(lookback_days): the new
\* coldness_score, with datetime.utcnow() = now
update_coldness_score(access_counts, now, lookback_days) ==
    LET end_30d      == now
        start_30d    == Strptime(Strftime(now)) - Timedelta(RecentDays)
        end_90d      == now
        start_90d    == Strptime(Strftime(now)) - Timedelta(lookback_days)
        accesses_30d == get_total_accesses(access_counts, Some(start_30d), Some(end_30d))
        accesses_90d == get_total_accesses(access_counts, Some(start_90d), Some(end_90d))
    IN  IF accesses_90d = 0 THEN Frac(1, 1)
        ELSE FracMax(Frac(0, 1),
                     FracMin(Frac(1, 1), Frac(accesses_90d - accesses_30d, accesses_90d)))

(***************************************************************************)
(* Archival policy (csi/models/policy.py).  Scores are in hundredths.      *)
(***************************************************************************)

\* Field(ge=0.0, le=1.0) of confidence_score and risk_score
ValidScore(x) == x >= 0 /\ x <= 100

\* a keyword argument's value, or the default of the field when it is omitted
Default(kwarg, default) == IF kwarg = None THEN default ELSE kwarg[1]

\* ArchivalPolicy(**kwargs): pydantic raises ValidationError when a field
\* without a default (confidence_score, risk_score) is omitted or when a
\* score is outside [0, 1]; otherwise it returns the model, every omitted
\* field at its default.  partition_values is List[str] with no constraint.
ArchivalPolicy(kwargs) ==
    IF \/ kwargs.confidence_score = None
       \/ kwargs.risk_score = None
       \/ ~ValidScore(kwargs.confidence_score[1])
       \/ ~ValidScore(kwargs.risk_score[1])
    THEN [raised |-> Some("ValidationError"), returned |-> None]
    ELSE [raised |-> None,
          returned |-> Some(
              [table_id |-> kwargs.table_id,
               partition_key |-> kwargs.partition_key,
               partition_values |-> kwargs.partition_values,
               confidence_score |-> kwargs.confidence_score[1],
               risk_score |-> kwargs.risk_score[1],
               dependent_queries |-> Default(kwargs.dependent_queries, <<>>),
               brittle_query_count |-> Default(kwargs.brittle_query_count, 0),
               estimated_monthly_savings_usd |-> 0,
               data_size_bytes |-> 0,
               enforcement_action |-> Default(kwargs.enforcement_action, "DRY_RUN"),
               approved_by |-> None,
               executed_at |-> None])]

\* ArchivalPolicy.is_safe
is_safe(p) == p.confidence_score >= 90 /\ p.risk_score < 30

\* a gate that lets a policy with risk_score exactly 0.3 through without
\* approval; not the code's requires_approval, which C1 must tell apart
requires_approval_strict(p) == p.confidence_score < 90 \/ p.risk_score > 30

\* ArchivalPolicy.requires_approval
requires_approval(p) == p.confidence_score < 90 \/ p.risk_score >= 30

(***************************************************************************)
(* Inputs of the query functions: a query text is a template (fragments,   *)
(* then a literal, then a tail) filled with one of two literals of the     *)
(* same kind.                                                              *)
(***************************************************************************)
Fragments ==
    {
      \* SELECT * FROM t WHERE id = 
      <<"S", "E", "L", "E", "C", "T", " ", "*", " ", "F", "R", "O", "M",
        " ", "t", " ", "W", "H", "E", "R", "E", " ", "i", "d", " ", "=", " ">>,
      \* select *x where d < 
      <<"s", "e", "l", "e", "c", "t", " ", "*", "x", " ", "w", "h", "e",
        "r", "e", " ", "d", " ", "<", " ">>,
      \* INNER inner JOIN b ON k = 
      <<"I", "N", "N", "E", "R", " ", "i", "n", "n", "e", "r", " ", "J",
        "O", "I", "N", " ", "b", " ", "O", "N", " ", "k", " ", "=", " ">>,
      \* x -/**/- 
      <<"x", " ", "-", "/", "*", "*", "/", "-", " ">>,
      \* -- c\nwhere date >= 
      <<"-", "-", " ", "c", "\n", "w", "h", "e", "r", "e", " ", "d", "a",
        "t", "e", " ", ">", "=", " ">>,
      \* full outer join t union all 
      <<"f", "u", "l", "l", " ", "o", "u", "t", "e", "r", " ", "j", "o",
        "i", "n", " ", "t", " ", "u", "n", "i", "o", "n", " ", "a", "l",
        "l", " ">>,
      \* create materialized view v as 
      <<"c", "r", "e", "a", "t", "e", " ", "m", "a", "t", "e", "r", "i",
        "a", "l", "i", "z", "e", "d", " ", "v", "i", "e", "w", " ", "v",
        " ", "a", "s", " ">>,
      \* create external  table e /* c */ 
      <<"c", "r", "e", "a", "t", "e", " ", "e", "x", "t", "e", "r", "n",
        "a", "l", " ", " ", "t", "a", "b", "l", "e", " ", "e", " ", "/",
        "*", " ", "c", " ", "*", "/", " ">>,
      \* date = 2024-01-01 and f = 
      <<"d", "a", "t", "e", " ", "=", " ", "2", "0", "2", "4", "-", "0",
        "1", "-", "0", "1", " ", "a", "n", "d", " ", "f", " ", "=", " ">>
    }

\* pairs of literals of one kind; "none": the template has no literal
Literals ==
    {
      [kind |-> "numeric",
       a |-> <<"1", "2", "3">>,
       b |-> <<"4", "5", "6">>],
      [kind |-> "numeric",
       a |-> <<"7">>,
       b |-> <<"-", "2", ".", "5">>],
      [kind |-> "string",
       a |-> <<"'", "a", "b", "'">>,
       b |-> <<"'", "c", "d", "'">>],
      [kind |-> "string",
       a |-> <<"'", "a", "b", "'">>,
       b |-> <<"'", "a", "-", "-", "b", "'">>],
      [kind |-> "string",
       a |-> <<"'", "i", "t", "'", "'", "s", "'">>,
       b |-> <<"\"", "x", "\"">>],
      [kind |-> "boolean",
       a |-> <<"T", "R", "U", "E">>,
       b |-> <<"F", "A", "L", "S", "E">>],
      [kind |-> "boolean",
       a |-> <<"t", "r", "u", "e">>,
       b |-> <<"F", "A", "L", "S", "E">>],
      [kind |-> "boolean",
       a |-> <<"T", "r", "u", "e">>,
       b |-> <<"f", "A", "l", "S", "e">>],
      [kind |-> "none",
       a |-> <<>>,
       b |-> <<>>]
    }

Tails == {<<>>, <<" ", "A", "N", "D", " ", "y">>}

RECURSIVE Heads(_)
\* the concatenations of at most n fragments
Heads(n) ==
    IF n = 0 THEN {<<>>}
    ELSE Heads(n - 1) \cup {h \o f : h \in Heads(n - 1), f \in Fragments}

(***************************************************************************)
(* Inputs of the fingerprint: pairs of query texts and the kind of their   *)
(* difference (a table name, the clause structure, whitespace, comments,   *)
(* the letter case of keywords, a literal value).                          *)
(***************************************************************************)
QueryPairs ==
    {
      [kind |-> "table",
       a |-> <<"S", "E", "L", "E", "C", "T", " ", "*", " ", "F", "R", "O", "M", " ", "a">>,
       b |-> <<"S", "E", "L", "E", "C", "T", " ", "*", " ", "F", "R", "O", "M", " ", "b">>],
      [kind |-> "table",
       a |-> <<"S", "E", "L", "E", "C", "T", " ", "*", " ", "F", "R", "O", "M", " ", "\"", "a", "\"">>,
       b |-> <<"S", "E", "L", "E", "C", "T", " ", "*", " ", "F", "R", "O", "M", " ", "\"", "b", "\"">>],
      [kind |-> "table",
       a |-> <<"S", "E", "L", "E", "C", "T", " ", "c", " ", "F", "R", "O", "M", " ", "u", "s", "e", "r", "s", " ", "u">>,
       b |-> <<"S", "E", "L", "E", "C", "T", " ", "c", " ", "F", "R", "O", "M", " ", "o", "r", "d", "e", "r", "s", " ", "u">>],
      [kind |-> "structure",
       a |-> <<"S", "E", "L", "E", "C", "T", " ", "c", " ", "F", "R", "O", "M", " ", "t", " ", "W", "H", "E", "R", "E", " ", "x", " ", "=", " ", "1">>,
       b |-> <<"S", "E", "L", "E", "C", "T", " ", "c", " ", "F", "R", "O", "M", " ", "t", " ", "W", "H", "E", "R", "E", " ", "x", " ", "=", " ", "1", " ", "A", "N", "D", " ", "y", " ", "=", " ", "2">>],
      [kind |-> "structure",
       a |-> <<"S", "E", "L", "E", "C", "T", " ", "c", " ", "F", "R", "O", "M", " ", "t">>,
       b |-> <<"S", "E", "L", "E", "C", "T", " ", "c", " ", "F", "R", "O", "M", " ", "t", " ", "O", "R", "D", "E", "R", " ", "B", "Y", " ", "c">>],
      [kind |-> "structure",
       a |-> <<"S", "E", "L", "E", "C", "T", " ", "a", " ", "F", "R", "O", "M", " ", "t">>,
       b |-> <<"S", "E", "L", "E", "C", "T", " ", "a", ",", " ", "b", " ", "F", "R", "O", "M", " ", "t">>],
      [kind |-> "structure",
       a |-> <<"a", " ", "L", "E", "F", "T", " ", "J", "O", "I", "N", " ", "b">>,
       b |-> <<"a", " ", "J", "O", "I", "N", " ", "b">>],
      [kind |-> "whitespace",
       a |-> <<"S", "E", "L", "E", "C", "T", " ", " ", "a", "\n", "F", "R", "O", "M", "\t", "t", " ">>,
       b |-> <<"S", "E", "L", "E", "C", "T", " ", "a", " ", "F", "R", "O", "M", " ", "t">>],
      [kind |-> "whitespace",
       a |-> <<" ", "x", " ", "=", " ", "1">>,
       b |-> <<"x", " ", " ", " ", "=", "\n", "1">>],
      [kind |-> "comment",
       a |-> <<"S", "E", "L", "E", "C", "T", " ", "a", " ", "/", "*", " ", "c", " ", "*", "/", " ", "F", "R", "O", "M", " ", "t">>,
       b |-> <<"S", "E", "L", "E", "C", "T", " ", "a", " ", "F", "R", "O", "M", " ", "t">>],
      [kind |-> "comment",
       a |-> <<"S", "E", "L", "E", "C", "T", " ", "a", " ", "-", "-", " ", "c", "\n", "F", "R", "O", "M", " ", "t">>,
       b |-> <<"S", "E", "L", "E", "C", "T", " ", "a", " ", "F", "R", "O", "M", " ", "t">>],
      [kind |-> "comment",
       a |-> <<"S", "E", "L", "E", "C", "T", " ", "a", " ", "/", "*", " ", "c", " ", "*", "/", " ", "F", "R", "O", "M", " ", "t">>,
       b |-> <<"S", "E", "L", "E", "C", "T", " ", "a", " ", "/", "*", " ", "-", "-", " ", "*", "/", " ", "F", "R", "O", "M", " ", "t">>],
      [kind |-> "case",
       a |-> <<"S", "E", "L", "E", "C", "T", " ", "*", " ", "F", "R", "O", "M", " ", "t", " ", "W", "H", "E", "R", "E", " ", "x", " ", "I", "S", " ", "N", "U", "L", "L">>,
       b |-> <<"s", "e", "l", "e", "c", "t", " ", "*", " ", "f", "r", "o", "m", " ", "t", " ", "w", "h", "e", "r", "e", " ", "x", " ", "i", "s", " ", "n", "u", "l", "l">>],
      [kind |-> "case",
       a |-> <<"S", "e", "l", "e", "c", "t", " ", "a", " ", "F", "r", "o", "m", " ", "t">>,
       b |-> <<"S", "E", "L", "E", "C", "T", " ", "a", " ", "F", "R", "O", "M", " ", "t">>],
      [kind |-> "case",
       a |-> <<"S", "E", "L", "E", "C", "T", " ", "D", "I", "S", "T", "I", "N", "C", "T", " ", "a", " ", "F", "R", "O", "M", " ", "t">>,
       b |-> <<"s", "e", "l", "e", "c", "t", " ", "d", "i", "s", "t", "i", "n", "c", "t", " ", "a", " ", "f", "r", "o", "m", " ", "t">>],
      [kind |-> "literal",
       a |-> <<"x", " ", "=", " ", "1">>,
       b |-> <<"x", " ", "=", " ", "2">>],
      [kind |-> "literal",
       a |-> <<>>,
       b |-> <<>>]
    }

\* what follows the query text of a pair
PairTails == {<<>>, <<" ", "L", "I", "M", "I", "T", " ", "5">>}

(***************************************************************************)
(* Inputs of the heat map and of the policy.                               *)
(***************************************************************************)
PartitionKeys == {"p1", "p2"}

\* days of the recorded accesses, relative to StartDay: around the edges of
\* the 30-day window and of a 7-day lookback, today and tomorrow
AccessOffsets == {-31, -30, -8, -7, 0, 1}

\* timestamps of the recorded accesses: midnight of each of these days, and
\* the last tick of the start day
AccessTimes ==
    {Strptime(StartDay + off) : off \in AccessOffsets}
        \cup {Strptime(StartDay) + TicksPerDay - 1}

\* start_date and end_date arguments of get_total_accesses: midnight and the
\* last tick of the start day
QueryTimes == {Strptime(StartDay), Strptime(StartDay) + TicksPerDay - 1}

OptionalQueryTimes == {None} \cup {Some(t) : t \in QueryTimes}

\* lookback_days arguments of update_coldness_score (90 is the default)
Lookbacks == {7, 90}

\* confidence_score and risk_score arguments, in hundredths
ScoreArgs == {-10, 29, 30, 89, 90, 100, 110}

\* partition_values arguments
PartitionValueArgs == {<<>>, <<"2024-01-01">>}

\* dependent_queries arguments: lists of QueryRef, brittle_score in hundredths
DependentQueryArgs ==
    {<<>>,
     <<[query_hash |-> "hash1", brittle_score |-> 0]>>,
     <<[query_hash |-> "hash1", brittle_score |-> 30],
       [query_hash |-> "hash2", brittle_score |-> 70]>>}

\* brittle_query_count arguments
BrittleCountArgs == {2}

\* a keyword argument is omitted or given one of the values
Optional(values) == {None} \cup {Some(v) : v \in values}

\* attribute assignments made on a policy after its creation
Assignments ==
    {[field |-> "risk_score", value |-> 100],
     [field |-> "partition_values", value |-> <<>>],
     [field |-> "approved_by", value |-> Some("reviewer")]}

\* EnforcementAction
EnforcementActions == {"DRY_RUN", "SCHEDULED", "IMMEDIATE"}

Workers == {"w1", "w2"}

(***************************************************************************)
(* State.                                                                  *)
(***************************************************************************)
VARIABLES
    \* query functions
    query_text,      \* the raw query text
    variant_text,    \* the same template with the other literal
    literal_kind,    \* the kind of the part in which the variant differs
    n_pc,            \* how far the query has been processed
    normalized_a,    \* normalize_query(query_text)
    normalized_b,    \* normalize_query(variant_text)
    renormalized,    \* normalize_query(normalized_a)
    supplied,        \* the normalized argument given to the brittle functions
    detected,        \* the return value of detect_brittle_patterns
    brittle_score,   \* the return value of compute_brittle_score
    hash_default,    \* compute_query_hash(query_text)
    hash_explicit,   \* compute_query_hash(query_text, normalized_a)
    hash_variant,    \* compute_query_hash(variant_text)
    \* heat map
    now,             \* datetime.utcnow()
    access_counts,   \* per partition: access_matrix.access_counts
    last_accessed,   \* per partition: last_accessed
    coldness_score,  \* per partition: coldness_score
    scored_with,     \* per partition: the lookback_days of the last
                     \* update_coldness_score, while nothing changed since
    total_ret,       \* the last get_total_accesses call and its return value
    days_ret,        \* the last days_since_access read and its value
    heatmap_fields,  \* per partition: the other fields of the PartitionHeatMap
    latest,          \* per partition: the newest timestamp given to add_access
    recorded,        \* per partition and timestamp: the add_access calls made
    \* concurrent add_access
    workers,         \* per worker: its position in add_access and its locals
    \* policy
    call,            \* the last constructor call: its arguments and its outcome
    policy,          \* the ArchivalPolicy that the call returned, as it is now
    gate,            \* is_safe and requires_approval as last read from the policy
    \* SnowflakeConnector
    connection,      \* self._connection: None or the connection object
    cursor,          \* self._cursor: None or the cursor object
    connects,        \* the connect calls made so far
    lifecycle,       \* the outcome of the last connect or disconnect call; a
                     \* failed connect on a connected connector is told apart
    conn_ret,        \* the last call on the connector and its outcome
    \* extract_query_logs
    config,          \* the ExtractionConfig
    history,         \* the rows of the warehouse's query history, newest first
    query,           \* the text that _build_query returned
    e_pc,            \* the position of the generator
    offset,          \* offset
    total_yielded,   \* total_yielded
    rows,            \* rows: the page that fetchmany returned
    row_i,           \* the position of the for loop in rows
    pages,           \* the pages requested so far, as [limit, offset]
    yielded          \* the records yielded so far

hash_vars == <<hash_default, hash_explicit, hash_variant>>

norm_vars ==
    <<query_text, variant_text, literal_kind, n_pc, normalized_a, normalized_b,
      renormalized, supplied, detected, brittle_score, hash_vars>>

heat_vars ==
    <<now, access_counts, last_accessed, coldness_score, scored_with, total_ret,
      days_ret, heatmap_fields, latest, recorded>>

policy_vars == <<call, policy, gate>>

conn_vars == <<connection, cursor, connects, lifecycle, conn_ret>>

ext_vars ==
    <<config, history, query, e_pc, offset, total_yielded, rows, row_i, pages, yielded>>

vars == <<norm_vars, heat_vars, workers, policy_vars, conn_vars, ext_vars>>

\* compute_query_hash has not been called
NoHash == hash_default = None /\ hash_explicit = None /\ hash_variant = None

\* no query is being processed
NormIdle ==
    /\ query_text = <<>>
    /\ variant_text = <<>>
    /\ literal_kind = "none"
    /\ n_pc = "idle"
    /\ normalized_a = <<>>
    /\ normalized_b = <<>>
    /\ renormalized = <<>>
    /\ supplied = None
    /\ detected = <<>>
    /\ brittle_score = 0
    /\ NoHash

\* PartitionHeatMap(...) for every partition key: the field defaults
\* the defaults of the fields of PartitionHeatMap that no method assigns
FieldDefaults ==
    [access_velocity |-> 0,
     estimated_savings_usd |-> 0,
     dependent_queries |-> {},
     data_size_bytes |-> None,
     row_count |-> None]

HeatInit ==
    /\ now = Strptime(StartDay)
    /\ access_counts = [p \in PartitionKeys |-> <<>>]
    /\ last_accessed = [p \in PartitionKeys |-> None]
    /\ coldness_score = [p \in PartitionKeys |-> Frac(1, 1)]
    /\ scored_with = [p \in PartitionKeys |-> None]
    /\ total_ret = None
    /\ days_ret = None
    /\ heatmap_fields = [p \in PartitionKeys |-> FieldDefaults]
    /\ latest = [p \in PartitionKeys |-> None]
    /\ recorded = [p \in PartitionKeys |-> <<>>]

\* no add_access call is running
WorkersIdle == workers = [w \in Workers |-> [pc |-> "idle"]]

\* no policy has been created
PolicyIdle == call = None /\ policy = None /\ gate = None

\* SnowflakeConnector.__init__: not connected, nothing called yet
ConnInit ==
    /\ connection = None
    /\ cursor = None
    /\ connects = 0
    /\ lifecycle = "new"
    /\ conn_ret = None

\* extract_query_logs has not been called
ExtractIdle ==
    /\ config = None
    /\ history = <<>>
    /\ query = <<>>
    /\ e_pc = "idle"
    /\ offset = 0
    /\ total_yielded = 0
    /\ rows = <<>>
    /\ row_i = 0
    /\ pages = <<>>
    /\ yielded = <<>>

(***************************************************************************)
(* The query functions applied to one query text and its variant.          *)
(***************************************************************************)
InitNorm ==
    /\ \E head \in Heads(MaxFragments), lit \in Literals, tail \in Tails :
          /\ query_text = head \o lit.a \o tail
          /\ variant_text = head \o lit.b \o tail
          /\ literal_kind = lit.kind
    /\ n_pc = "raw"
    /\ normalized_a = <<>>
    /\ normalized_b = <<>>
    /\ renormalized = <<>>
    /\ supplied = None
    /\ detected = <<>>
    /\ brittle_score = 0
    /\ NoHash
    /\ HeatInit
    /\ WorkersIdle
    /\ PolicyIdle
    /\ ConnInit
    /\ ExtractIdle

\* normalized_text = normalize_query(query_text)
NormalizeQuery ==
    /\ n_pc = "raw"
    /\ normalized_a' = normalize_query(query_text)
    /\ n_pc' = "normalized"
    /\ UNCHANGED <<query_text, variant_text, literal_kind, normalized_b, renormalized,
                   supplied, detected, brittle_score>>
    /\ UNCHANGED <<hash_vars, heat_vars, workers, policy_vars, conn_vars, ext_vars>>

\* normalize_query on the variant of the query
NormalizeVariant ==
    /\ n_pc = "normalized"
    /\ normalized_b' = normalize_query(variant_text)
    /\ n_pc' = "variant"
    /\ UNCHANGED <<query_text, variant_text, literal_kind, normalized_a, renormalized,
                   supplied, detected, brittle_score>>
    /\ UNCHANGED <<hash_vars, heat_vars, workers, policy_vars, conn_vars, ext_vars>>

\* normalize_query on a text that normalize_query returned
Renormalize ==
    /\ n_pc = "variant"
    /\ renormalized' = normalize_query(normalized_a)
    /\ n_pc' = "renormalized"
    /\ UNCHANGED <<query_text, variant_text, literal_kind, normalized_a, normalized_b,
                   supplied, detected, brittle_score>>
    /\ UNCHANGED <<hash_vars, heat_vars, workers, policy_vars, conn_vars, ext_vars>>

\* detect_brittle_patterns(query_text, normalized): the caller leaves
\* normalized out, or passes the normalized text, or passes the raw text
DetectBrittlePatterns ==
    /\ n_pc = "renormalized"
    /\ \E arg \in {None, Some(normalized_a), Some(query_text)} :
          /\ supplied' = arg
          /\ detected' = detect_brittle_patterns(query_text, arg)
    /\ n_pc' = "detected"
    /\ UNCHANGED <<query_text, variant_text, literal_kind, normalized_a, normalized_b,
                   renormalized, brittle_score>>
    /\ UNCHANGED <<hash_vars, heat_vars, workers, policy_vars, conn_vars, ext_vars>>

\* compute_brittle_score(query_text, normalized) with the same arguments
ComputeBrittleScore ==
    /\ n_pc = "detected"
    /\ brittle_score' = compute_brittle_score(query_text, supplied)
    /\ n_pc' = "scored"
    /\ UNCHANGED <<query_text, variant_text, literal_kind, normalized_a, normalized_b,
                   renormalized, supplied, detected>>
    /\ UNCHANGED <<hash_vars, heat_vars, workers, policy_vars, conn_vars, ext_vars>>

NextNorm ==
    \/ NormalizeQuery
    \/ NormalizeVariant
    \/ Renormalize
    \/ DetectBrittlePatterns
    \/ ComputeBrittleScore

SpecNorm == InitNorm /\ [][NextNorm]_vars

(***************************************************************************)
(* The fingerprint of a query text and of its variant.                     *)
(***************************************************************************)
InitHash ==
    /\ \E pair \in QueryPairs, tail \in PairTails :
          /\ query_text = pair.a \o tail
          /\ variant_text = pair.b \o tail
          /\ literal_kind = pair.kind
    /\ n_pc = "raw"
    /\ normalized_a = <<>>
    /\ normalized_b = <<>>
    /\ renormalized = <<>>
    /\ supplied = None
    /\ detected = <<>>
    /\ brittle_score = 0
    /\ NoHash
    /\ HeatInit
    /\ WorkersIdle
    /\ PolicyIdle
    /\ ConnInit
    /\ ExtractIdle

\* query_hash = compute_query_hash(query_text)
HashDefault ==
    /\ n_pc = "variant"
    /\ hash_default' = Some(compute_query_hash(query_text, None))
    /\ n_pc' = "hashed_default"
    /\ UNCHANGED <<query_text, variant_text, literal_kind, normalized_a, normalized_b,
                   renormalized, supplied, detected, brittle_score,
                   hash_explicit, hash_variant>>
    /\ UNCHANGED <<heat_vars, workers, policy_vars, conn_vars, ext_vars>>

\* query_hash = compute_query_hash(query_text, normalized_text)
HashExplicit ==
    /\ n_pc = "hashed_default"
    /\ hash_explicit' = Some(compute_query_hash(query_text, Some(normalized_a)))
    /\ n_pc' = "hashed_explicit"
    /\ UNCHANGED <<query_text, variant_text, literal_kind, normalized_a, normalized_b,
                   renormalized, supplied, detected, brittle_score,
                   hash_default, hash_variant>>
    /\ UNCHANGED <<heat_vars, workers, policy_vars, conn_vars, ext_vars>>

\* compute_query_hash on the variant of the query
HashVariant ==
    /\ n_pc = "hashed_explicit"
    /\ hash_variant' = Some(compute_query_hash(variant_text, None))
    /\ n_pc' = "hashed"
    /\ UNCHANGED <<query_text, variant_text, literal_kind, normalized_a, normalized_b,
                   renormalized, supplied, detected, brittle_score,
                   hash_default, hash_explicit>>
    /\ UNCHANGED <<heat_vars, workers, policy_vars, conn_vars, ext_vars>>

NextHash ==
    \/ NormalizeQuery
    \/ NormalizeVariant
    \/ HashDefault
    \/ HashExplicit
    \/ HashVariant

SpecHash == InitHash /\ [][NextHash]_vars

(***************************************************************************)
(* The heat map used by one caller.                                        *)
(***************************************************************************)
Init ==
    /\ NormIdle
    /\ HeatInit
    /\ WorkersIdle
    /\ PolicyIdle
    /\ ConnInit
    /\ ExtractIdle

\* the log of calls with one more call at the timestamp date
Logged(log, date) ==
    [t \in DOMAIN log \cup {date} |->
        IF t = date THEN DictGet(log, date, 0) + 1 ELSE log[t]]

\* the add_access calls made so far
CallsMade ==
    LET n(p) == SumValues(recorded[p], DOMAIN recorded[p])
    IN  SumValues([p \in PartitionKeys |-> n(p)], PartitionKeys)

\* heatmap.access_matrix.add_access(date) on partition p
AddAccess(p, date) ==
    /\ CallsMade < MaxAccesses
    /\ access_counts' = [access_counts EXCEPT ![p] = add_access(@, date)]
    /\ recorded' = [recorded EXCEPT ![p] = Logged(@, date)]
    /\ latest' = [latest EXCEPT ![p] = IF @ = None \/ @[1] < date THEN Some(date) ELSE @]
    /\ scored_with' = [scored_with EXCEPT ![p] = None]
    /\ total_ret' = None
    /\ UNCHANGED <<now, last_accessed, coldness_score>>
    /\ UNCHANGED <<days_ret, heatmap_fields>>
    /\ UNCHANGED <<norm_vars, workers, policy_vars, conn_vars, ext_vars>>

\* heatmap.update_coldness_score(lookback_days) on partition p
UpdateColdnessScore(p, lookback_days) ==
    /\ coldness_score' =
          [coldness_score EXCEPT ![p] = update_coldness_score(access_counts[p], now, lookback_days)]
    /\ scored_with' = [scored_with EXCEPT ![p] = Some(lookback_days)]
    /\ total_ret' = None
    /\ UNCHANGED <<now, access_counts, last_accessed, latest, recorded>>
    /\ UNCHANGED <<days_ret, heatmap_fields>>
    /\ UNCHANGED <<norm_vars, workers, policy_vars, conn_vars, ext_vars>>

\* heatmap.access_matrix.get_total_accesses(start_date, end_date) on partition p
GetTotalAccesses(p, start_date, end_date) ==
    /\ total_ret' = Some([partition |-> p, start_date |-> start_date, end_date |-> end_date,
                          value |-> get_total_accesses(access_counts[p], start_date, end_date)])
    /\ UNCHANGED <<now, access_counts, last_accessed, coldness_score, scored_with,
                   latest, recorded>>
    /\ UNCHANGED <<days_ret, heatmap_fields>>
    /\ UNCHANGED <<norm_vars, workers, policy_vars, conn_vars, ext_vars>>

\* time passes
Tick ==
    /\ now < Strptime(StartDay) + MaxTicks
    /\ now' = now + 1
    /\ scored_with' = [p \in PartitionKeys |-> None]
    /\ total_ret' = None
    /\ UNCHANGED <<access_counts, last_accessed, coldness_score, latest, recorded>>
    /\ days_ret' = None
    /\ UNCHANGED heatmap_fields
    /\ UNCHANGED <<norm_vars, workers, policy_vars, conn_vars, ext_vars>>

Next ==
    \/ \E p \in PartitionKeys, date \in AccessTimes : AddAccess(p, date)
    \/ \E p \in PartitionKeys, lookback_days \in Lookbacks :
          UpdateColdnessScore(p, lookback_days)
    \/ \E p \in PartitionKeys, start_date \in OptionalQueryTimes,
          end_date \in OptionalQueryTimes : GetTotalAccesses(p, start_date, end_date)
    \/ Tick

Spec == Init /\ [][Next]_vars

(***************************************************************************)
(* add_access called by several workers at once: line 23 reads the bucket  *)
(* with access_counts.get and then stores the sum with a separate item     *)
(* assignment; the code takes no lock in between.                          *)
(***************************************************************************)

\* a worker enters add_access(date) on partition p and computes date_key
CallAddAccess(w, p, date) ==
    /\ workers[w].pc = "idle"
    /\ CallsMade < MaxAccesses
    /\ workers' = [workers EXCEPT ![w] =
                      [pc |-> "get", partition |-> p, date_key |-> Strftime(date)]]
    /\ recorded' = [recorded EXCEPT ![p] = Logged(@, date)]
    /\ UNCHANGED <<now, access_counts, last_accessed, coldness_score, scored_with,
                   total_ret, latest>>
    /\ UNCHANGED <<days_ret, heatmap_fields>>
    /\ UNCHANGED <<norm_vars, policy_vars, conn_vars, ext_vars>>

\* self.access_counts.get(date_key, 0) + 1
GetCount(w) ==
    /\ workers[w].pc = "get"
    /\ workers' = [workers EXCEPT ![w] =
                      [pc |-> "set", partition |-> @.partition, date_key |-> @.date_key,
                       value |-> DictGet(access_counts[@.partition], @.date_key, 0) + 1]]
    /\ UNCHANGED heat_vars
    /\ UNCHANGED <<norm_vars, policy_vars, conn_vars, ext_vars>>

\* self.access_counts[date_key] = ...
SetCount(w) ==
    /\ workers[w].pc = "set"
    /\ access_counts' =
          [access_counts EXCEPT ![workers[w].partition] =
              [k \in DOMAIN @ \cup {workers[w].date_key} |->
                  IF k = workers[w].date_key THEN workers[w].value ELSE @[k]]]
    /\ workers' = [workers EXCEPT ![w] = [pc |-> "idle"]]
    /\ UNCHANGED <<now, last_accessed, coldness_score, scored_with, total_ret, latest,
                   recorded>>
    /\ UNCHANGED <<days_ret, heatmap_fields>>
    /\ UNCHANGED <<norm_vars, policy_vars, conn_vars, ext_vars>>

NextConc ==
    \/ \E w \in Workers, p \in PartitionKeys, date \in AccessTimes :
          CallAddAccess(w, p, date)
    \/ \E w \in Workers : GetCount(w)
    \/ \E w \in Workers : SetCount(w)

SpecConc == Init /\ [][NextConc]_vars

(***************************************************************************)
(* A partition from its creation on: its defaults, last_accessed set by    *)
(* the caller and days_since_access read.                                  *)
(***************************************************************************)

\* values assigned to last_accessed: ten days before now's first value, the
\* tick after that, the tick before now's first value, and that value itself
LastAccessedTimes ==
    {Strptime(StartDay) - Timedelta(10), Strptime(StartDay) - Timedelta(10) + 1,
     Strptime(StartDay) - 1, Strptime(StartDay)}

\* heatmap.last_accessed = date
SetLastAccessed(p, date) ==
    /\ last_accessed' = [last_accessed EXCEPT ![p] = Some(date)]
    /\ days_ret' = None
    /\ UNCHANGED <<now, access_counts, coldness_score, scored_with, total_ret,
                   latest, recorded>>
    /\ UNCHANGED heatmap_fields
    /\ UNCHANGED <<norm_vars, workers, policy_vars, conn_vars, ext_vars>>

\* heatmap.days_since_access on partition p
DaysSinceAccess(p) ==
    /\ days_ret' = Some([partition |-> p,
                         value |-> days_since_access(last_accessed[p], now)])
    /\ UNCHANGED <<now, access_counts, last_accessed, coldness_score, scored_with,
                   total_ret, latest, recorded>>
    /\ UNCHANGED heatmap_fields
    /\ UNCHANGED <<norm_vars, workers, policy_vars, conn_vars, ext_vars>>

NextAccess ==
    \/ \E p \in PartitionKeys : AddAccess(p, now)
    \/ \E p \in PartitionKeys, lookback_days \in Lookbacks :
          UpdateColdnessScore(p, lookback_days)
    \/ \E p \in PartitionKeys : GetTotalAccesses(p, None, None)
    \/ \E p \in PartitionKeys, date \in LastAccessedTimes : SetLastAccessed(p, date)
    \/ \E p \in PartitionKeys : DaysSinceAccess(p)
    \/ Tick

SpecAccess == Init /\ [][NextAccess]_vars

(***************************************************************************)
(* The archival policy.                                                    *)
(***************************************************************************)

\* policy = ArchivalPolicy(table_id=..., partition_key=..., ...): the name is
\* bound to the model returned, and to nothing when the constructor raises.
\* A behaviour follows the object of one constructor call.
CreatePolicy(kwargs) ==
    /\ call = None
    /\ call' = Some([kwargs |-> kwargs,
                     raised |-> ArchivalPolicy(kwargs).raised,
                     returned |-> ArchivalPolicy(kwargs).returned])
    /\ policy' = ArchivalPolicy(kwargs).returned
    /\ gate' = None
    /\ UNCHANGED <<norm_vars, heat_vars, workers, conn_vars, ext_vars>>

\* policy.<field> = value: the model's Config does not freeze it and does not
\* validate assignments, so any field takes the value
SetAttr(field, value) ==
    /\ policy # None
    /\ policy' = Some([f \in DOMAIN policy[1] |->
                          IF f = field THEN value ELSE policy[1][f]])
    /\ gate' = None
    /\ UNCHANGED <<call, norm_vars, heat_vars, workers, conn_vars, ext_vars>>

\* a caller reads policy.is_safe and policy.requires_approval
ReadGate ==
    /\ policy # None
    /\ gate' = Some([is_safe |-> is_safe(policy[1]),
                     requires_approval |-> requires_approval(policy[1])])
    /\ UNCHANGED <<call, policy, norm_vars, heat_vars, workers, conn_vars, ext_vars>>

NextPolicy ==
    \/ \E confidence_score \in Optional(ScoreArgs),
          risk_score \in Optional(ScoreArgs),
          partition_values \in PartitionValueArgs,
          dependent_queries \in Optional(DependentQueryArgs),
          brittle_query_count \in Optional(BrittleCountArgs),
          enforcement_action \in Optional(EnforcementActions) :
          CreatePolicy([table_id |-> "test.table",
                        partition_key |-> "date",
                        partition_values |-> partition_values,
                        confidence_score |-> confidence_score,
                        risk_score |-> risk_score,
                        dependent_queries |-> dependent_queries,
                        brittle_query_count |-> brittle_query_count,
                        enforcement_action |-> enforcement_action])
    \/ \E a \in Assignments : SetAttr(a.field, a.value)
    \/ ReadGate

SpecPolicy == Init /\ [][NextPolicy]_vars

(***************************************************************************)
(* The Snowflake connector (csi/connectors/snowflake_connector.py).  Every *)
(* call is awaited by one caller, so a call is one step; what the driver,  *)
(* the connection and the cursor do is chosen by the environment.          *)
(***************************************************************************)

\* the connect calls of one behaviour
MaxConnects == 2

\* what a connect call meets: the driver is not installed, the driver's
\* connect raises, connection.cursor() raises, or all of it works
ConnectOutcomes == {"no_driver", "connect_raises", "cursor_raises", "ok"}

\* the rows that cursor.fetchone() returns to test_connection: none, (1,), (0,)
FetchoneRows == {None, Some(1), Some(0)}

\* the guard `not self._connection or not self._cursor`
not_connected(self) == self.connection = None \/ self.cursor = None

\* SnowflakeConnector.connect; handle names the objects this call creates
connect(self, handle, outcome) ==
    CASE outcome = "no_driver" ->
             [connection |-> self.connection, cursor |-> self.cursor,
              raised |-> Some("ImportError")]
      [] outcome = "connect_raises" ->
             [connection |-> self.connection, cursor |-> self.cursor,
              raised |-> Some("ConnectionError")]
      [] outcome = "cursor_raises" ->
             [connection |-> Some(handle), cursor |-> self.cursor,
              raised |-> Some("ConnectionError")]
      [] outcome = "ok" ->
             [connection |-> Some(handle), cursor |-> Some(handle),
              raised |-> None]

\* SnowflakeConnector.disconnect: an exception of either close is caught and
\* logged, and the statements after the close that raised are skipped
disconnect(self, cursor_close_raises, connection_close_raises) ==
    IF self.cursor # None /\ cursor_close_raises
    THEN [connection |-> self.connection, cursor |-> self.cursor, raised |-> None]
    ELSE IF self.connection # None /\ connection_close_raises
    THEN [connection |-> self.connection, cursor |-> None, raised |-> None]
    ELSE [connection |-> None, cursor |-> None, raised |-> None]

\* SnowflakeConnector.test_connection
test_connection(self, execute_raises, row) ==
    IF not_connected(self)
    THEN [raised |-> None, returned |-> Some(FALSE), issued |-> 0]
    ELSE IF execute_raises
    THEN [raised |-> None, returned |-> Some(FALSE), issued |-> 1]
    ELSE [raised |-> None, returned |-> Some(row # None /\ row = Some(1)), issued |-> 1]

\* the first statements of extract_query_logs, get_table_metadata and
\* get_storage_info: ConnectionError when not connected, else the query is
\* executed on the cursor; extract_query_logs lets an exception of the
\* cursor through, the other two catch it and return their default
guarded_query(self, op, execute_raises) ==
    IF not_connected(self)
    THEN [raised |-> Some("ConnectionError"), returned |-> None, issued |-> 0]
    ELSE IF execute_raises /\ op = "extract_query_logs"
    THEN [raised |-> Some("Exception"), returned |-> None, issued |-> 1]
    ELSE IF execute_raises
    THEN [raised |-> None, returned |-> Some("default"), issued |-> 1]
    ELSE [raised |-> None, returned |-> Some("result"), issued |-> 1]

Self == [connection |-> connection, cursor |-> cursor]

\* await connector.connect(), directly or by entering `async with`
Connect(via, outcome) ==
    /\ connects < MaxConnects
    /\ connects' = connects + 1
    /\ connection' = connect(Self, connects + 1, outcome).connection
    /\ cursor' = connect(Self, connects + 1, outcome).cursor
    /\ lifecycle' = IF connect(Self, connects + 1, outcome).raised = None
                    THEN "connected"
                    ELSE IF lifecycle \in {"connected", "reconnect_failed"}
                    THEN "reconnect_failed"
                    ELSE "connect_failed"
    /\ conn_ret' = Some([op |-> via,
                         raised |-> connect(Self, connects + 1, outcome).raised,
                         returned |-> None, issued |-> 0])
    /\ UNCHANGED <<norm_vars, heat_vars, workers, policy_vars, ext_vars>>

\* await connector.disconnect(), directly or by leaving `async with`
Disconnect(via, cursor_close_raises, connection_close_raises) ==
    /\ connection' = disconnect(Self, cursor_close_raises, connection_close_raises).connection
    /\ cursor' = disconnect(Self, cursor_close_raises, connection_close_raises).cursor
    /\ lifecycle' = "disconnected"
    /\ conn_ret' = Some([op |-> via,
                         raised |-> disconnect(Self, cursor_close_raises,
                                               connection_close_raises).raised,
                         returned |-> None, issued |-> 0])
    /\ UNCHANGED <<connects, norm_vars, heat_vars, workers, policy_vars, ext_vars>>

\* await connector.test_connection()
TestConnection(execute_raises, row) ==
    /\ conn_ret' = Some([op |-> "test_connection",
                         raised |-> test_connection(Self, execute_raises, row).raised,
                         returned |-> test_connection(Self, execute_raises, row).returned,
                         issued |-> test_connection(Self, execute_raises, row).issued])
    /\ UNCHANGED <<connection, cursor, connects, lifecycle>>
    /\ UNCHANGED <<norm_vars, heat_vars, workers, policy_vars, ext_vars>>

\* the first step of extract_query_logs, get_table_metadata or get_storage_info
GuardedQuery(op, execute_raises) ==
    /\ conn_ret' = Some([op |-> op,
                         raised |-> guarded_query(Self, op, execute_raises).raised,
                         returned |-> guarded_query(Self, op, execute_raises).returned,
                         issued |-> guarded_query(Self, op, execute_raises).issued])
    /\ UNCHANGED <<connection, cursor, connects, lifecycle>>
    /\ UNCHANGED <<norm_vars, heat_vars, workers, policy_vars, ext_vars>>

NextConn ==
    \/ \E via \in {"connect", "__aenter__"}, outcome \in ConnectOutcomes :
          Connect(via, outcome)
    \/ \E via \in {"disconnect", "__aexit__"}, cursor_close_raises \in BOOLEAN,
          connection_close_raises \in BOOLEAN :
          Disconnect(via, cursor_close_raises, connection_close_raises)
    \/ \E execute_raises \in BOOLEAN, row \in FetchoneRows :
          TestConnection(execute_raises, row)
    \/ \E op \in {"extract_query_logs", "get_table_metadata", "get_storage_info"},
          execute_raises \in BOOLEAN : GuardedQuery(op, execute_raises)

SpecConn == Init /\ [][NextConn]_vars

(***************************************************************************)
(* extract_query_logs: the query text that _build_query formats and the    *)
(* pages that the generator fetches and converts.                          *)
(***************************************************************************)

\* rows in the warehouse's query history
MaxRows == 3

\* the template of lines 24-45, cut at {limit}, {start_time} and {end_time}
QUERY_HISTORY_SQL ==
    << <<
          "\n", "S", "E", "L", "E", "C", "T", "\n", " ", " ", " ", " ", "Q",
          "U", "E", "R", "Y", "_", "I", "D", ",", "\n", " ", " ", " ", " ",
          "Q", "U", "E", "R", "Y", "_", "T", "E", "X", "T", ",", "\n", " ",
          " ", " ", " ", "D", "A", "T", "A", "B", "A", "S", "E", "_", "N",
          "A", "M", "E", ",", "\n", " ", " ", " ", " ", "S", "C", "H", "E",
          "M", "A", "_", "N", "A", "M", "E", ",", "\n", " ", " ", " ", " ",
          "S", "T", "A", "R", "T", "_", "T", "I", "M", "E", ",", "\n", " ",
          " ", " ", " ", "E", "N", "D", "_", "T", "I", "M", "E", ",", "\n",
          " ", " ", " ", " ", "T", "O", "T", "A", "L", "_", "E", "L", "A",
          "P", "S", "E", "D", "_", "T", "I", "M", "E", ",", "\n", " ", " ",
          " ", " ", "B", "Y", "T", "E", "S", "_", "S", "C", "A", "N", "N",
          "E", "D", ",", "\n", " ", " ", " ", " ", "R", "O", "W", "S", "_",
          "P", "R", "O", "D", "U", "C", "E", "D", ",", "\n", " ", " ", " ",
          " ", "W", "A", "R", "E", "H", "O", "U", "S", "E", "_", "N", "A",
          "M", "E", ",", "\n", " ", " ", " ", " ", "E", "X", "E", "C", "U",
          "T", "I", "O", "N", "_", "S", "T", "A", "T", "U", "S", ",", "\n",
          " ", " ", " ", " ", "E", "R", "R", "O", "R", "_", "M", "E", "S",
          "S", "A", "G", "E", "\n", "F", "R", "O", "M", " ", "T", "A", "B",
          "L", "E", "(", "I", "N", "F", "O", "R", "M", "A", "T", "I", "O",
          "N", "_", "S", "C", "H", "E", "M", "A", ".", "Q", "U", "E", "R",
          "Y", "_", "H", "I", "S", "T", "O", "R", "Y", "(", "\n", " ", " ",
          " ", " ", "R", "E", "S", "U", "L", "T", "_", "L", "I", "M", "I",
          "T", " ", "=", ">", " " >>,
       <<
          ",", "\n", " ", " ", " ", " ", "E", "N", "D", "_", "T", "I", "M",
          "E", "_", "R", "A", "N", "G", "E", "_", "S", "T", "A", "R", "T",
          " ", "=", ">", " ", "'" >>,
       <<
          "'", ":", ":", "t", "i", "m", "e", "s", "t", "a", "m", "p", "_",
          "n", "t", "z", ",", "\n", " ", " ", " ", " ", "E", "N", "D", "_",
          "T", "I", "M", "E", "_", "R", "A", "N", "G", "E", "_", "E", "N",
          "D", " ", "=", ">", " ", "'" >>,
       <<
          "'", ":", ":", "t", "i", "m", "e", "s", "t", "a", "m", "p", "_",
          "n", "t", "z", "\n", ")", ")", "\n", "W", "H", "E", "R", "E", " ",
          "E", "X", "E", "C", "U", "T", "I", "O", "N", "_", "S", "T", "A",
          "T", "U", "S", " ", "I", "N", " ", "(", "'", "S", "U", "C", "C",
          "E", "S", "S", "'", ",", " ", "'", "F", "A", "I", "L", "E", "D",
          "'", ")", "\n", "O", "R", "D", "E", "R", " ", "B", "Y", " ", "S",
          "T", "A", "R", "T", "_", "T", "I", "M", "E", " ", "D", "E", "S",
          "C", "\n" >> >>

RECURSIVE Str(_)
\* str(n) of a natural number, as format() writes it
Str(n) ==
    IF n < 10 THEN <<(<<"0", "1", "2", "3", "4", "5", "6", "7", "8", "9">>)[n + 1]>>
    ELSE Str(n \div 10) \o Str(n % 10)

\* a number of two digits, padded with a zero
Pad2(n) == IF n < 10 THEN <<"0">> \o Str(n) ELSE Str(n)

\* datetime.strftime("%Y-%m-%d %H:%M:%S")
StrftimeSeconds(dt) ==
    Str(dt.year) \o <<"-">> \o Pad2(dt.month) \o <<"-">> \o Pad2(dt.day) \o <<" ">>
        \o Pad2(dt.hour) \o <<":">> \o Pad2(dt.minute) \o <<":">> \o Pad2(dt.second)

\* old stands in s at position i
StartsAt(s, i, old) ==
    /\ i + Len(old) - 1 <= Len(s)
    /\ SubSeq(s, i, i + Len(old) - 1) = old

RECURSIVE Replace(_, _, _)
\* s.replace(old, new), old not empty: the leftmost occurrence is replaced,
\* then the occurrences in the text after it
Replace(s, old, new) ==
    IF \A i \in 1..Len(s) : ~StartsAt(s, i, old) THEN s
    ELSE SubSeq(s, 1, MinOf({i \in 1..Len(s) : StartsAt(s, i, old)}) - 1) \o new
            \o Replace(SubSeq(s, MinOf({i \in 1..Len(s) : StartsAt(s, i, old)}) + Len(old),
                               Len(s)),
                       old, new)

\* the truth value of an Optional[str] in `if x`
TruthyStr(x) == x # None /\ x[1] # <<>>

\* the truth value of an Optional[int] in `if x` and `x or y`
TruthyInt(x) == x # None /\ x[1] # 0

WhereStatus ==
    <<"W", "H", "E", "R", "E", " ", "E", "X", "E", "C", "U", "T", "I", "O", "N", "_",
      "S", "T", "A", "T", "U", "S">>

\* f"WHERE {column} = '{value}' AND EXECUTION_STATUS"
WhereFilter(column, value) ==
    <<"W", "H", "E", "R", "E", " ">> \o column \o <<" ", "=", " ", "'">> \o value
        \o <<"'", " ", "A", "N", "D", " ", "E", "X", "E", "C", "U", "T", "I", "O", "N",
             "_", "S", "T", "A", "T", "U", "S">>

DATABASE_NAME == <<"D", "A", "T", "A", "B", "A", "S", "E", "_", "N", "A", "M", "E">>

SCHEMA_NAME == <<"S", "C", "H", "E", "M", "A", "_", "N", "A", "M", "E">>

\* QUERY_HISTORY_SQL.format(limit=config.limit or 10000, start_time=..., end_time=...)
FormatTemplate(cfg) ==
    QUERY_HISTORY_SQL[1] \o Str(IF TruthyInt(cfg.limit) THEN cfg.limit[1] ELSE 10000)
        \o QUERY_HISTORY_SQL[2] \o StrftimeSeconds(cfg.start_time)
        \o QUERY_HISTORY_SQL[3] \o StrftimeSeconds(cfg.end_time)
        \o QUERY_HISTORY_SQL[4]

\* the database filter step of _build_query
WithDatabaseFilter(cfg, text) ==
    IF TruthyStr(cfg.database_filter)
    THEN Replace(text, WhereStatus, WhereFilter(DATABASE_NAME, cfg.database_filter[1]))
    ELSE text

\* the schema filter step of _build_query
WithSchemaFilter(cfg, text) ==
    IF TruthyStr(cfg.schema_filter)
    THEN Replace(text, WhereStatus, WhereFilter(SCHEMA_NAME, cfg.schema_filter[1]))
    ELSE text

\* SnowflakeConnector._build_query
build_query(cfg) == WithSchemaFilter(cfg, WithDatabaseFilter(cfg, FormatTemplate(cfg)))

\* the number of columns of a row of QUERY_HISTORY_SQL
RowColumns == 12

\* SnowflakeConnector._row_to_query_record: None when the row does not unpack
\* into the twelve columns, else the record (the fields that depend on the row)
row_to_query_record(row) ==
    IF row.columns # RowColumns THEN None
    ELSE Some([warehouse_query_id |-> Str(row.query_id),
               query_text_normalized |-> normalize_query(row.query_text),
               query_hash |-> compute_query_hash(row.query_text,
                                                 Some(normalize_query(row.query_text)))])

\* what the cursor returns for f"{query} LIMIT {limit} OFFSET {offset}" and
\* fetchmany(limit): the rows of the result set after the first offset rows,
\* at most limit of them
FetchPage(result_set, limit, off) ==
    SubSeq(result_set, off + 1,
           IF off + limit < Len(result_set) THEN off + limit ELSE Len(result_set))

\* the connector is connected and extract_query_logs(config) has been called
\* on a result set of at most MaxRows rows, each with the twelve columns or
\* with two (a row that does not convert)
InitExtract ==
    /\ NormIdle
    /\ HeatInit
    /\ WorkersIdle
    /\ PolicyIdle
    /\ connection = Some(1)
    /\ cursor = Some(1)
    /\ connects = 1
    /\ lifecycle = "connected"
    /\ conn_ret = Some([op |-> "connect", raised |-> None, returned |-> None, issued |-> 0])
    /\ \E database_filter \in Optional({<<"d", "b">>}),
          schema_filter \in Optional({<<"s", "c">>}),
          limit \in Optional({0, 1, 2}), batch_size \in {1, 2} :
          config = Some([start_time |-> [year |-> 2024, month |-> 1, day |-> 1,
                                         hour |-> 0, minute |-> 0, second |-> 0],
                         end_time |-> [year |-> 2024, month |-> 1, day |-> 31,
                                       hour |-> 23, minute |-> 59, second |-> 59],
                         database_filter |-> database_filter,
                         schema_filter |-> schema_filter,
                         limit |-> limit,
                         batch_size |-> batch_size])
    /\ \E n \in 0..MaxRows, columns \in [1..MaxRows -> {RowColumns, 2}] :
          history = [k \in 1..n |-> [query_id |-> k,
                                     query_text |-> <<"S", "E", "L", "E", "C", "T", " ", "1">>,
                                     columns |-> columns[k]]]
    /\ query = <<>>
    /\ e_pc = "called"
    /\ offset = 0
    /\ total_yielded = 0
    /\ rows = <<>>
    /\ row_i = 0
    /\ pages = <<>>
    /\ yielded = <<>>

\* lines 165-179: the guard, query = self._build_query(config), offset = 0
BuildQuery ==
    /\ e_pc = "called"
    /\ IF not_connected(Self)
       THEN /\ e_pc' = "raised"
            /\ UNCHANGED <<query, offset, total_yielded>>
       ELSE /\ query' = build_query(config[1])
            /\ offset' = 0
            /\ total_yielded' = 0
            /\ e_pc' = "execute"
    /\ UNCHANGED <<config, history, rows, row_i, pages, yielded>>
    /\ UNCHANGED <<norm_vars, heat_vars, workers, policy_vars, conn_vars>>

\* lines 183-200: the page is executed and fetched; an empty page ends the loop
ExecutePage ==
    /\ e_pc = "execute"
    /\ pages' = Append(pages, [limit |-> config[1].batch_size, offset |-> offset])
    /\ rows' = FetchPage(history, config[1].batch_size, offset)
    /\ row_i' = 1
    /\ e_pc' = IF FetchPage(history, config[1].batch_size, offset) = <<>>
               THEN "done" ELSE "convert"
    /\ UNCHANGED <<config, history, query, offset, total_yielded, yielded>>
    /\ UNCHANGED <<norm_vars, heat_vars, workers, policy_vars, conn_vars>>

\* lines 219-221: the cursor raises and the exception is raised again
PageRaises ==
    /\ e_pc = "execute"
    /\ e_pc' = "raised"
    /\ UNCHANGED <<config, history, query, offset, total_yielded, rows, row_i, pages,
                   yielded>>
    /\ UNCHANGED <<norm_vars, heat_vars, workers, policy_vars, conn_vars>>

\* lines 203-211: one turn of the for loop
ConvertRow ==
    /\ e_pc = "convert"
    /\ row_i <= Len(rows)
    /\ IF row_to_query_record(rows[row_i]) = None
       THEN /\ row_i' = row_i + 1
            /\ UNCHANGED <<yielded, total_yielded, e_pc>>
       ELSE /\ yielded' = Append(yielded, row_to_query_record(rows[row_i])[1])
            /\ total_yielded' = total_yielded + 1
            /\ IF TruthyInt(config[1].limit) /\ total_yielded + 1 >= config[1].limit[1]
               THEN e_pc' = "done" /\ UNCHANGED row_i
               ELSE e_pc' = "convert" /\ row_i' = row_i + 1
    /\ UNCHANGED <<config, history, query, offset, rows, pages>>
    /\ UNCHANGED <<norm_vars, heat_vars, workers, policy_vars, conn_vars>>

\* lines 214-217: a short page ends the loop, a full one moves the offset
NextPage ==
    /\ e_pc = "convert"
    /\ row_i > Len(rows)
    /\ IF Len(rows) < config[1].batch_size
       THEN e_pc' = "done" /\ UNCHANGED offset
       ELSE e_pc' = "execute" /\ offset' = offset + config[1].batch_size
    /\ UNCHANGED <<config, history, query, total_yielded, rows, row_i, pages, yielded>>
    /\ UNCHANGED <<norm_vars, heat_vars, workers, policy_vars, conn_vars>>

NextExtract == BuildQuery \/ ExecutePage \/ PageRaises \/ ConvertRow \/ NextPage

SpecExtract == InitExtract /\ [][NextExtract]_vars

(***************************************************************************)
(* Properties.                                                             *)
(***************************************************************************)

\* C1 (SpecPolicy): whatever the scores of the policy, is_safe is true
\* exactly when confidence_score >= 0.9 and risk_score < 0.3, and
\* requires_approval is the negation of is_safe.
C1_GateComplementary ==
    gate # None =>
        /\ gate[1].is_safe =
              (policy[1].confidence_score >= 90 /\ policy[1].risk_score < 30)
        /\ gate[1].requires_approval = ~gate[1].is_safe

\* C1: the gate has been read on a policy that sits on both thresholds
C1_Witness ==
    /\ gate # None
    /\ policy[1].confidence_score = 90
    /\ policy[1].risk_score = 30
    /\ gate[1].requires_approval

\* the query has been given to normalize_query, and so has its variant
BothNormalized ==
    n_pc \in {"variant", "renormalized", "detected", "scored",
              "hashed_default", "hashed_explicit", "hashed"}

\* C2 (SpecNorm): two instances of one template that differ only in the value
\* of a literal of one kind have the same normalize_query output.
C2_LiteralInvariance == BothNormalized => normalized_a = normalized_b

\* the normalized text has been given to normalize_query again
Renormalized == n_pc \in {"renormalized", "detected", "scored"}

\* C3 (SpecNorm): normalize_query(normalize_query(x)) = normalize_query(x).
C3_Idempotent == Renormalized => renormalized = normalized_a

\* the calendar day of now
Today == Strftime(now)

\* the accesses of partition p recorded on the days first..last
BucketSum(p, first, last) ==
    SumValues(access_counts[p],
              {d \in DOMAIN access_counts[p] : first <= d /\ d <= last})

\* recent: the day-buckets of the 30 days before today, and today's
RecentOf(p) == BucketSum(p, Today - 30, Today)

\* full: the day-buckets of the lookback days before today, and today's
FullOf(p, lookback_days) == BucketSum(p, Today - lookback_days, Today)

\* the fraction score equals clamp(1 - recent/full, 0, 1), for full > 0
IsClampedRatio(score, recent, full) ==
    IF recent >= full THEN score[1] = 0
    ELSE score[1] * full = (full - recent) * score[2]

C5_ColdnessBounds ==
    \A p \in PartitionKeys :
        /\ coldness_score[p][2] > 0
        /\ 0 <= coldness_score[p][1]
        /\ coldness_score[p][1] <= coldness_score[p][2]
        /\ (scored_with[p] # None /\ FullOf(p, scored_with[p][1]) = 0)
              => coldness_score[p] = <<1, 1>>

\* C5: a lookback below 30 days with more recent accesses than accesses in
\* the lookback window (the ratio is clamped to 0), and a partition scored
\* with no access in its lookback window
C5_Witness ==
    /\ \E p \in PartitionKeys :
          /\ scored_with[p] = Some(7)
          /\ FullOf(p, 7) > 0
          /\ RecentOf(p) > FullOf(p, 7)
          /\ coldness_score[p] = <<0, 1>>
    /\ \E p \in PartitionKeys :
          /\ scored_with[p] # None
          /\ FullOf(p, scored_with[p][1]) = 0
          /\ coldness_score[p] = <<1, 1>>

\* C6 (Spec): of two partitions scored with the same lookback that have the
\* same number of accesses in the lookback window, the one with more of them
\* in the recent 30-day window has a score less than or equal to the other's.
C6_ColdnessMonotone ==
    \A p \in PartitionKeys, q \in PartitionKeys :
        (/\ scored_with[p] # None
         /\ scored_with[q] = scored_with[p]
         /\ FullOf(p, scored_with[p][1]) = FullOf(q, scored_with[p][1])
         /\ RecentOf(p) >= RecentOf(q))
            => FracLeq(coldness_score[p], coldness_score[q])

\* C6: two scored partitions with the same full count, one with its access
\* inside the recent window and one with its access before it
C6_Witness ==
    \E p \in PartitionKeys, q \in PartitionKeys :
        /\ scored_with[p] = Some(90)
        /\ scored_with[q] = Some(90)
        /\ FullOf(p, 90) = 1
        /\ FullOf(q, 90) = 1
        /\ RecentOf(p) = 1
        /\ RecentOf(q) = 0
        /\ coldness_score[p] = <<0, 1>>
        /\ coldness_score[q] = <<1, 1>>

CallsOnDay(p, day) ==
    SumValues(recorded[p],
              {t \in DOMAIN recorded[p] : Strptime(day) <= t /\ t < Strptime(day + 1)})

\* the add_access calls made on partition p, counted per calendar day
CallsPerDay(p) ==
    [day \in {d \in (StartDay - 40)..(StartDay + 5) : CallsOnDay(p, d) > 0} |->
        CallsOnDay(p, day)]

\* C8 (Spec): after any sequence of recorded accesses the partition's
\* last-access equals the latest recorded timestamp, and its day-buckets hold
\* one increment per recorded access.
C8_LastAccessIsLatest ==
    \A p \in PartitionKeys :
        /\ access_counts[p] = CallsPerDay(p)
        /\ latest[p] # None => last_accessed[p] = latest[p]

\* C9 (SpecConc): once all concurrent add_access calls have finished, every
\* day-bucket equals the number of calls made for it.
C9_NoLostIncrement ==
    (\A w \in Workers : workers[w].pc = "idle")
        => \A p \in PartitionKeys : access_counts[p] = CallsPerDay(p)

\* C10 (Spec): get_total_accesses(start_date, end_date) returns the sum of the
\* day-buckets whose calendar day lies between start_date's day and
\* end_date's day, both included, whatever the time of day of the bounds; an
\* omitted bound does not restrict.
C10_InclusiveDayRange ==
    total_ret # None =>
        LET r == total_ret[1]
            days == {d \in DOMAIN access_counts[r.partition] :
                        /\ (r.start_date = None \/ Strftime(r.start_date[1]) <= d)
                        /\ (r.end_date = None \/ d <= Strftime(r.end_date[1]))}
        IN  r.value = SumValues(access_counts[r.partition], days)

\* the fingerprint is 16 hexadecimal characters
IsFingerprint(h) ==
    /\ Len(h) = 16
    /\ \A k \in 1..Len(h) : h[k] \in {HexDigits[d] : d \in 1..Len(HexDigits)}

C12_StructuralSensitivity ==
    (n_pc = "hashed" /\ literal_kind \in {"table", "structure"})
        => (normalized_a # normalized_b /\ hash_default # hash_variant)

\* C13 (SpecHash): two queries that differ only in whitespace, in comments
\* or in the letter case of SQL keywords have the same normalize_query
\* output and the same fingerprint.
C13_SuperficialInvariance ==
    (n_pc = "hashed" /\ literal_kind \in {"whitespace", "comment", "case"})
        => (normalized_a = normalized_b /\ hash_default = hash_variant)

\* detect_brittle_patterns has returned
Detected == n_pc \in {"detected", "scored"}

\* the findings hold the pattern name with the weight (in tenths)
Reports(name, weight) ==
    \E k \in 1..Len(detected) : detected[k][1] = name /\ detected[k][2] = weight

\* the text holds the word select followed by whitespace and a star
SelectsStar(text) ==
    \E i \in 1..Len(text) :
        /\ Boundary(text, i)
        /\ PhraseEnd(text, i, << <<"s", "e", "l", "e", "c", "t">>, <<"*">> >>, 1) # 0

\* C14 (SpecNorm): detect_brittle_patterns(query) reports SELECT_STAR with the
\* weight 0.3 for every query that selects *.
C14_SelectStarReported ==
    (Detected /\ supplied = None /\ SelectsStar(query_text))
        => Reports("SELECT_STAR", 3)

\* the raw text compares date with an unquoted YYYY-MM-DD date
ComparesHardCodedDate(text) == ReSearch([re |-> "hard_coded_dates"], text)

\* C15 (SpecNorm): detect_brittle_patterns(query), called on the raw query
\* text, reports HARD_CODED_DATES with the weight 0.6 for a query that
\* compares a date column with a hard-coded YYYY-MM-DD date.
C15_HardCodedDatesReported ==
    (Detected /\ supplied = None /\ ComparesHardCodedDate(query_text))
        => Reports("HARD_CODED_DATES", 6)

\* the constructor has returned a policy
Created == call # None /\ call[1].returned # None

\* the policy as the constructor returned it
AsCreated == call[1].returned[1]

\* the largest brittle_score of the dependents, 0 when there are none
MaxBrittleScore(dependents) ==
    IF dependents = <<>> THEN 0
    ELSE CHOOSE m \in {dependents[k].brittle_score : k \in DOMAIN dependents} :
             \A k \in DOMAIN dependents : dependents[k].brittle_score <= m

\* C16 (SpecPolicy): the risk_score of every ArchivalPolicy is the maximum
\* brittle_score over its dependent_queries, and 0.0 when it has none.
C16_RiskIsMaxBrittleScore ==
    Created => AsCreated.risk_score = MaxBrittleScore(AsCreated.dependent_queries)

\* C17 (SpecPolicy): the brittle_query_count of every ArchivalPolicy is the
\* number of its dependent_queries whose brittle_score is greater than 0.
C17_BrittleCountIsCounted ==
    Created =>
        AsCreated.brittle_query_count =
            Cardinality({k \in DOMAIN AsCreated.dependent_queries :
                            AsCreated.dependent_queries[k].brittle_score > 0})

\* C18 (SpecPolicy): creating a policy for an empty set of partition values
\* fails with an InvalidInput error and produces no policy; for a non-empty
\* set (and scores within [0, 1]) a policy is produced, even when risk_score
\* is 1.0.
C18_EmptyCandidatesRejected ==
    (/\ call # None
     /\ call[1].kwargs.confidence_score # None
     /\ call[1].kwargs.risk_score # None
     /\ call[1].kwargs.confidence_score[1] \in 0..100
     /\ call[1].kwargs.risk_score[1] \in 0..100)
        => IF call[1].kwargs.partition_values = <<>>
           THEN call[1].raised = Some("InvalidInput") /\ call[1].returned = None
           ELSE call[1].raised = None /\ call[1].returned # None

\* the fields that are fixed once the policy is created
Frame(p) ==
    <<p.table_id, p.partition_key, p.partition_values, p.confidence_score,
      p.risk_score, p.dependent_queries, p.estimated_monthly_savings_usd,
      p.data_size_bytes>>

\* C19 (SpecPolicy): after its creation no operation changes the policy's
\* table_id, partition_key, partition_values, confidence_score, risk_score,
\* dependent_queries or savings fields; only approved_by and executed_at may
\* change.
C19_FrameAfterCreation ==
    policy # None => Frame(policy[1]) = Frame(AsCreated)

\* C20 (SpecPolicy): a constructor call with only table_id, partition_key and
\* partition_values (and at most an enforcement action) succeeds, with
\* brittle_query_count 0 and the enforcement action requested, DRY_RUN when
\* none is requested.
C20_DefaultsOnCreation ==
    (/\ call # None
     /\ call[1].kwargs.partition_values # <<>>
     /\ call[1].kwargs.confidence_score = None
     /\ call[1].kwargs.risk_score = None
     /\ call[1].kwargs.dependent_queries = None
     /\ call[1].kwargs.brittle_query_count = None)
        => /\ Created
           /\ AsCreated.brittle_query_count = 0
           /\ AsCreated.enforcement_action =
                  (IF call[1].kwargs.enforcement_action = None THEN "DRY_RUN"
                   ELSE call[1].kwargs.enforcement_action[1])

\* a case variant of TRUE or FALSE stands at position i as a whole word
BooleanWordAt(text, i) ==
    \E w \in {<<"t", "r", "u", "e">>, <<"f", "a", "l", "s", "e">>} :
        /\ WordAt(text, i, w, TRUE)
        /\ Boundary(text, i)
        /\ Boundary(text, i + Len(w))

\* C21 (SpecNorm): normalize_query masks every boolean literal whatever its
\* letter case: no case variant of TRUE or FALSE is left as a whole word in
\* the normalized text.
C21_BooleanMaskedAnyCase ==
    n_pc # "raw" =>
        \A i \in 1..Len(normalized_a) : ~BooleanWordAt(normalized_a, i)

\* C22 (Spec): right after update_coldness_score a partition that has
\* accesses inside the lookback window has a coldness score strictly greater
\* than 0.0 and strictly less than 1.0.
C22_ScoreStrictlyBetween ==
    \A p \in PartitionKeys :
        (scored_with[p] # None /\ FullOf(p, scored_with[p][1]) > 0)
            => /\ 0 < coldness_score[p][1]
               /\ coldness_score[p][1] < coldness_score[p][2]

\* no add_access call has been made on partition p and its last_accessed has
\* not been set
NeverAccessed(p) == recorded[p] = <<>> /\ last_accessed[p] = None

\* C23 (SpecAccess): a partition that has never been accessed has the total
\* access count 0, the coldness score 1.0 before and after
\* update_coldness_score, and days_since_access None; once last_accessed is
\* set, days_since_access is the whole number of days from last_accessed to
\* now.
C23_NeverAccessedDefaults ==
    /\ \A p \in PartitionKeys :
          NeverAccessed(p) =>
              /\ coldness_score[p] = <<1, 1>>
              /\ (total_ret # None /\ total_ret[1].partition = p)
                    => total_ret[1].value = 0
              /\ (days_ret # None /\ days_ret[1].partition = p)
                    => days_ret[1].value = None
    /\ \A p \in PartitionKeys :
          (days_ret # None /\ days_ret[1].partition = p /\ last_accessed[p] # None)
              => /\ days_ret[1].value # None
                 /\ days_ret[1].value[1] * TicksPerDay <= now - last_accessed[p][1]
                 /\ now - last_accessed[p][1] < (days_ret[1].value[1] + 1) * TicksPerDay

\* C23: a never accessed partition has been scored and read, and another one
\* whose last_accessed was set ten days before now, less one tick, reads 9
C23_Witness ==
    \E p \in PartitionKeys, q \in PartitionKeys :
        /\ NeverAccessed(p)
        /\ scored_with[p] # None
        /\ days_ret = Some([partition |-> q, value |-> Some(9)])
        /\ now - last_accessed[q][1] = Timedelta(10) - 1

\* the add_access calls made on partition p
CallsOn(p) == SumValues(recorded[p], DOMAIN recorded[p])

\* no day-bucket is removed or decreased by the step
BucketsKept ==
    \A p \in PartitionKeys : \A day \in DOMAIN access_counts[p] :
        /\ day \in DOMAIN access_counts'[p]
        /\ access_counts[p][day] <= access_counts'[p][day]

\* C24 (Spec): after any sequence of add_access calls, get_access_count(d) is
\* the number of calls whose timestamp falls on the calendar day of d,
\* get_total_accesses() without bounds is the number of calls, and no step
\* decreases or removes a day-bucket.
C24_BucketsCountCalls ==
    /\ [](\A p \in PartitionKeys :
            /\ \A date \in AccessTimes :
                  get_access_count(access_counts[p], date) = CallsOnDay(p, Strftime(date))
            /\ get_total_accesses(access_counts[p], None, None) = CallsOn(p))
    /\ [][BucketsKept]_vars

\* C24: two calls at different times of one day have filled one bucket
C24_Witness ==
    \E p \in PartitionKeys :
        /\ DOMAIN recorded[p] = {Strptime(StartDay), Strptime(StartDay) + TicksPerDay - 1}
        /\ access_counts[p][StartDay] = 2
        /\ get_total_accesses(access_counts[p], None, None) = 2

\* the step leaves the day-bucket of partition p for the day as it is
BucketUnchanged(p, day) ==
    /\ (day \in DOMAIN access_counts[p]) = (day \in DOMAIN access_counts'[p])
    /\ day \in DOMAIN access_counts[p] => access_counts'[p][day] = access_counts[p][day]

\* the step is a call add_access(date) on partition p
IsAddAccess(p, date) ==
    /\ date \in DOMAIN recorded'[p]
    /\ recorded'[p][date] # DictGet(recorded[p], date, 0)

\* C30 (Spec): add_access(t) on one partition changes only that partition's
\* day-bucket for the calendar day of t: its other day-buckets, its stored
\* coldness_score, its dependent_queries and size fields and the day-buckets
\* of every other partition are left as they were.
C30_AddAccessFrame ==
    [][\A p \in PartitionKeys, date \in AccessTimes :
          IsAddAccess(p, date) =>
              /\ \A q \in PartitionKeys :
                    \A day \in DOMAIN access_counts[q] \cup DOMAIN access_counts'[q] :
                        (q # p \/ day # Strftime(date)) => BucketUnchanged(q, day)
              /\ coldness_score' = coldness_score
              /\ heatmap_fields' = heatmap_fields]_vars

\* C30: a partition scored 0.0 after an access today has then been given an
\* access 31 days back: it has both day-buckets and still the score 0.0
C30_Witness ==
    \E p \in PartitionKeys :
        /\ DOMAIN access_counts[p] = {StartDay - 31, StartDay}
        /\ coldness_score[p] = <<0, 1>>
        /\ scored_with[p] = None
        /\ update_coldness_score(access_counts[p], now, 90) # coldness_score[p]

\* the last call on the connector was one of the operations
LastCall(ops) == conn_ret # None /\ conn_ret[1].op \in ops

\* C25 (SpecConn): whenever disconnect() returns, called directly or by
\* leaving `async with`, from any state and whatever the closes do, _cursor
\* and _connection are both None, and disconnect has not raised.
C25_DisconnectDisconnects ==
    LastCall({"disconnect", "__aexit__"})
        => /\ conn_ret[1].raised = None
           /\ cursor = None
           /\ connection = None

\* C27 (SpecConn): in every state that is not connected (before the first
\* successful connect, after a failed connect, after disconnect)
\* extract_query_logs, get_table_metadata and get_storage_info raise
\* ConnectionError without issuing a query, and test_connection returns False
\* without raising.
C27_NotConnectedRejects ==
    lifecycle \in {"new", "connect_failed", "disconnected"}
        => /\ LastCall({"extract_query_logs", "get_table_metadata", "get_storage_info"})
                => /\ conn_ret[1].raised = Some("ConnectionError")
                   /\ conn_ret[1].issued = 0
           /\ LastCall({"test_connection"})
                => /\ conn_ret[1].raised = None
                   /\ conn_ret[1].returned = Some(FALSE)

\* C29 (SpecConn): a connect() that fails raises ImportError or
\* ConnectionError and leaves _connection and _cursor both None.
C29_FailedConnectLeavesNothing ==
    (LastCall({"connect", "__aenter__"}) /\ conn_ret[1].raised # None)
        => /\ conn_ret[1].raised \in {Some("ImportError"), Some("ConnectionError")}
           /\ connection = None
           /\ cursor = None

\* text contains part
Contains(text, part) == \E i \in 1..Len(text) : StartsAt(text, i, part)

\* the query has been built
QueryBuilt == e_pc \in {"execute", "convert", "done"}

\* the condition column = 'value' of a WHERE clause
Restricts(column, value) == column \o <<" ", "=", " ", "'">> \o value \o <<"'">>

\* C26: the built query restricts EXECUTION_STATUS, and DATABASE_NAME and
\* SCHEMA_NAME for every filter that is set (both when both are set)
C26_EveryFilterApplied ==
    QueryBuilt =>
        /\ Contains(query, <<"E", "X", "E", "C", "U", "T", "I", "O", "N", "_", "S", "T", "A", "T", "U", "S", " ", "I", "N", " ", "(", "'", "S", "U", "C", "C", "E", "S", "S", "'", ",", " ", "'", "F", "A", "I", "L", "E", "D", "'", ")">>)
        /\ config[1].database_filter # None =>
               Contains(query, Restricts(DATABASE_NAME, config[1].database_filter[1]))
        /\ config[1].schema_filter # None =>
               Contains(query, Restricts(SCHEMA_NAME, config[1].schema_filter[1]))

\* the rows of the result set that convert, in order
Convertible == SelectSeq(history, LAMBDA row : row_to_query_record(row) # None)

\* C28: when the extraction has ended, the pages were asked for with
\* LIMIT batch_size and OFFSET 0, batch_size, 2*batch_size, ... up to the
\* first empty or short page or the limit; the convertible rows were yielded
\* in order, once each; and with config.limit set (0 included) at most
\* config.limit records were yielded
C28_PagedExtraction ==
    e_pc = "done" =>
        /\ \A k \in 1..Len(pages) :
               /\ pages[k].limit = config[1].batch_size
               /\ pages[k].offset = (k - 1) * config[1].batch_size
               /\ k < Len(pages) => k * config[1].batch_size <= Len(history)
        /\ Len(yielded) <= Len(Convertible)
        /\ \A k \in 1..Len(yielded) :
               yielded[k] = row_to_query_record(Convertible[k])[1]
        /\ config[1].limit = None => Len(yielded) = Len(Convertible)
        /\ config[1].limit # None =>
               /\ Len(yielded) <= config[1].limit[1]
               /\ Len(yielded) < Len(Convertible) => Len(yielded) = config[1].limit[1]

====
